---- MODULE Spec2Model ----
(***************************************************************************)
(* Hydrology Copilot front end: the chat components (HydrologyDarkChat,    *)
(* Chat), the backend client (services/multiAgent), the stable user        *)
(* identity kept in localStorage (utils/userIdentity) and the map view     *)
(* (AzureMapView).                                                         *)
(*                                                                         *)
(* Values that come out of JSON are modelled with their JavaScript type,   *)
(* because the code tests them with the coercing global isFinite, with     *)
(* truthiness and with typeof.  Angles are integers in hundredths of a     *)
(* degree, so that the one-decimal constants of getMapBounds and their     *)
(* 10% padding are exact.                                                  *)
(***************************************************************************)
EXTENDS Integers, Sequences, FiniteSets, TLC

VARIABLES
    \* ---- chat component state (useState of HydrologyDarkChat / Chat)
    component,      \* which chat component App mounts
    azureMapsKey,   \* import.meta.env.VITE_AZURE_MAPS_SUBSCRIPTION_KEY
    query, loading, error, messages, debug, userId, threadId,
    initPc,         \* position of the mount effect initUser
    \* ---- browser and network
    localStorage,   \* key -> stored string, or Undef when the key is absent
    issued,         \* identifiers returned by getStableUserId since the last clearUserId
    calls,          \* callMultiAgentFunction invocations that have not settled
    posts,          \* every POST sent to the chat endpoint, in order
    submits,        \* number of handleSubmit invocations that passed the blank check
    invoked,        \* number of callMultiAgentFunction invocations
    lastSettle,     \* how the most recently settled call ended
    \* ---- one AzureMapView instance
    mounted,        \* whether the component is mounted
    props,          \* its current props: mapData and subscriptionKey
    effectRuns,     \* number of runs of its effect so far
    cleanupPending, \* whether the last effect run returned a cleanup function
    maps,           \* every atlas.Map created so far, in order of creation
    mapInstanceRef, \* mapInstanceRef.current: index into maps, 0 for null
    timers,         \* maps whose 1500 ms overlay timer is pending
    overlay,        \* what the most recent overlay processing did
    nativeTiles,    \* what atlas offers as source.TileSource / layer.TileLayer
    hoverTimers,    \* the pending 100 ms hover timers: <<map, "current">> is the
                    \* one hoverTimeout of that map refers to, <<map, "superseded">>
                    \* one that hoverTimeout no longer refers to
    popup,          \* the most recent popup.open(map), if the popup is open
    \* ---- one call of loadGeoTiffOverlay (utils/geotiffLoader)
    geotiff,        \* its position, what it has read and what it did to the map
    \* ---- one call of testFastAPIConnection (services/multiAgent)
    connection,     \* the probes sent, how each ended, and the result
    \* ---- one call of getVariableColor (utils/geotiffLoader)
    pixel           \* its arguments and the colour it returned

chatVars == <<component, azureMapsKey, query, loading, error, messages, debug,
              userId, threadId, initPc, localStorage, issued, calls, posts,
              submits, invoked, lastSettle>>

mapVars == <<mounted, props, effectRuns, cleanupPending, maps, mapInstanceRef,
             timers, overlay, nativeTiles, hoverTimers, popup, geotiff,
             connection, pixel>>

vars == <<chatVars, mapVars>>

-----------------------------------------------------------------------------
(* Bounds of the model *)

MaxSubmits == 2       \* handleSubmit invocations explored per behaviour
MaxFeatures == 2      \* GeoJSON features in one backend response
MaxRuns == 2          \* runs of the AzureMapView effect explored per behaviour

-----------------------------------------------------------------------------
(* JavaScript values *)

Undef == [t |-> "undefined"]
Null == [t |-> "null"]
NaN == [t |-> "NaN"]
Infinity == [t |-> "Infinity"]
Num(n) == [t |-> "number", n |-> n]
Str(s) == [t |-> "string", s |-> s]
NumStr(n) == [t |-> "numeric string", n |-> n]      \* a string such as "40"
Cat(a, b) == [t |-> "concatenation", l |-> a, r |-> b]
Bool(b) == [t |-> "boolean", b |-> b]
Arr(s) == [t |-> "array", a |-> s]

IsPrimitive(v) == "t" \in DOMAIN v /\ v.t # "array"

TypeOf(v) ==
    IF "t" \notin DOMAIN v THEN "object"
    ELSE CASE v.t \in {"number", "other number", "NaN", "Infinity"} -> "number"
           [] v.t \in {"string", "numeric string", "concatenation"} -> "string"
           [] v.t = "boolean" -> "boolean"
           [] v.t = "undefined" -> "undefined"
           [] OTHER -> "object"                      \* null and arrays

Truthy(v) ==
    IF "t" \notin DOMAIN v THEN TRUE
    ELSE CASE v.t = "undefined" -> FALSE
           [] v.t = "null" -> FALSE
           [] v.t = "NaN" -> FALSE
           [] v.t = "number" -> v.n # 0
           [] v.t = "string" -> v.s # ""
           [] v.t = "boolean" -> v.b
           [] OTHER -> TRUE

\* a || b
Or(a, b) == IF Truthy(a) THEN a ELSE b

\* a ?? b
Coalesce(a, b) == IF a = Undef \/ a = Null THEN b ELSE a

\* o.k and o?.k : a missing member reads as undefined
Get(o, k) ==
    IF o = Undef \/ o = Null \/ "t" \in DOMAIN o THEN Undef
    ELSE IF k \in DOMAIN o THEN o[k] ELSE Undef

\* a finite number whose value the model does not track (a numeric
\* concatenation such as "40" + 1 read back as a number)
OtherNum == [t |-> "other number"]

\* a value whose string form is a run of digits
IsDigits(v) ==
    "t" \in DOMAIN v /\ v.t \in {"number", "numeric string"} /\ v.n >= 0

\* ToNumber, restricted to the values of the model
ToNumber(v) ==
    IF "t" \notin DOMAIN v THEN NaN
    ELSE CASE v.t = "number" -> v
           [] v.t = "other number" -> v
           [] v.t = "Infinity" -> v
           [] v.t = "null" -> Num(0)
           [] v.t = "numeric string" -> Num(v.n)
           [] v.t = "boolean" -> Num(IF v.b THEN 1 ELSE 0)
           [] v.t = "string" -> IF v.s = "" THEN Num(0) ELSE NaN
           [] v.t = "concatenation" ->
                IF v.l.t = "numeric string" /\ IsDigits(v.r) THEN OtherNum ELSE NaN
           [] OTHER -> NaN

\* the global isFinite(v): coerces its argument first
isFinite(v) == ToNumber(v).t \in {"number", "other number"}

\* typeof v === 'number' && isFinite(v)
IsFiniteNumber(v) == "t" \in DOMAIN v /\ v.t \in {"number", "other number"}

\* the result of an arithmetic operator from the kinds of its operands
Arith(x, y, exact) ==
    IF x.t = "NaN" \/ y.t = "NaN" THEN NaN
    ELSE IF x.t = "Infinity" \/ y.t = "Infinity" THEN Infinity
    ELSE IF x.t = "other number" \/ y.t = "other number" THEN OtherNum
    ELSE Num(exact)

\* a + b : concatenates as soon as one operand is a string
JsAdd(a, b) ==
    IF TypeOf(a) = "string" \/ TypeOf(b) = "string" THEN Cat(a, b)
    ELSE LET x == ToNumber(a)
             y == ToNumber(b)
         IN  Arith(x, y, IF x.t = "number" /\ y.t = "number" THEN x.n + y.n ELSE 0)

\* a - b
JsSub(a, b) ==
    LET x == ToNumber(a)
        y == ToNumber(b)
    IN  IF x.t = "Infinity" /\ y.t = "Infinity" THEN NaN
        ELSE Arith(x, y, IF x.t = "number" /\ y.t = "number" THEN x.n - y.n ELSE 0)

\* Math.abs(a) * 0.1 ; the model's spans are multiples of ten hundredths
AbsTenth(a) ==
    LET x == ToNumber(a)
    IN  IF x.t # "number" THEN x
        ELSE Num((IF x.n < 0 THEN -x.n ELSE x.n) \div 10)

\* (a + b) / 2
Mid(a, b) ==
    LET s == ToNumber(JsAdd(a, b))
    IN  IF s.t = "number" THEN Num(s.n \div 2) ELSE s

\* a < b on the values the model compares (numbers after coercion)
JsLess(a, b) ==
    LET x == ToNumber(a)
        y == ToNumber(b)
    IN  x.t = "number" /\ y.t = "number" /\ x.n < y.n

\* a < b for two numeric strings, which JavaScript compares character by
\* character; the numerals of the model all have the same number of digits
StrLess(a, b) ==
    IF a.n < 0 /\ b.n < 0 THEN a.n > b.n
    ELSE IF a.n >= 0 /\ b.n >= 0 THEN a.n < b.n
    ELSE a.n < 0

\* a <= b
JsLessEq(a, b) ==
    IF TypeOf(a) = "string" /\ TypeOf(b) = "string"
    THEN a.t = "numeric string" /\ b.t = "numeric string" /\ (a = b \/ StrLess(a, b))
    ELSE LET x == ToNumber(a)
             y == ToNumber(b)
         IN  x.t = "number" /\ y.t = "number" /\ x.n <= y.n

-----------------------------------------------------------------------------
(* utils/userIdentity *)

STORAGE_KEY == "hydrology_copilot_user_id"

\* keys of the browser's localStorage the model tracks: the application's key
\* and one that belongs to something else on the same origin
StorageKeys == {STORAGE_KEY, "theme"}

\* the identifiers generateUUID can draw
UUIDs == {"uuid-a", "uuid-b"}

\* getCurrentUserEmail / getAuthenticatedUser: no auth system, always null
getAuthenticatedUser == Null

\* a getStableUserId that never looks at what is stored
getStableUserIdAlwaysNew(store, fresh) ==
    [id |-> fresh, store |-> [store EXCEPT ![STORAGE_KEY] = Str(fresh)]]

\* getStableUserId: the identifier it returns and the storage it leaves, when
\* generateUUID draws `fresh`
getStableUserId(store, fresh) ==
    IF getAuthenticatedUser # Null
    THEN [id |-> "hash-of-email", store |-> store]
    ELSE IF ~Truthy(store[STORAGE_KEY])
         THEN [id |-> fresh, store |-> [store EXCEPT ![STORAGE_KEY] = Str(fresh)]]
         ELSE [id |-> store[STORAGE_KEY].s, store |-> store]

\* clearUserId: localStorage.removeItem('hydrology_copilot_user_id')
clearUserId(store) == [store EXCEPT ![STORAGE_KEY] = Undef]

-----------------------------------------------------------------------------
(* services/multiAgent: callMultiAgentFunction *)

\* the body of the POST: JSON.stringify({ query, user_id: userId })
RequestBody(requestData, uid) ==
    [query |-> Or(Get(Get(requestData, "data"), "query"), Get(requestData, "query")),
     user_id |-> Str(uid)]

\* a GeoJSON feature as the filters read it: coordinates[0], coordinates[1]
\* and properties.value (undefined when geometry or properties is missing)
Feature(lng, lat, value) == [lng |-> lng, lat |-> lat, value |-> value]

\* a filter that takes isFinite alone, without the typeof tests
CoercedValid(f) ==
    /\ isFinite(f.lat)
    /\ isFinite(f.lng)
    /\ isFinite(f.value)

\* features that pass the filter of the response transformation
ServiceValid(f) ==
    /\ IsFiniteNumber(f.lat)
    /\ IsFiniteNumber(f.lng)
    /\ IsFiniteNumber(f.value)

\* temperature_data: one point per valid feature, in order
TemperatureData(data) ==
    LET fs == Get(Get(data, "geojson"), "features")
    IN  IF Truthy(fs)
        THEN [i \in 1..Len(SelectSeq(fs.a, ServiceValid)) |->
                [latitude |-> SelectSeq(fs.a, ServiceValid)[i].lat,
                 longitude |-> SelectSeq(fs.a, ServiceValid)[i].lng,
                 value |-> SelectSeq(fs.a, ServiceValid)[i].value]]
        ELSE <<>>

\* tile_config of the transformed response
TransformTileConfig(tc) ==
    IF Truthy(tc)
    THEN [tile_url |-> Get(tc, "tile_url"),
          variable |-> Get(tc, "variable"),
          min_zoom |-> Or(Get(tc, "min_zoom"), Num(3)),
          max_zoom |-> Or(Get(tc, "max_zoom"), Num(10)),
          tile_size |-> Or(Get(tc, "tile_size"), Num(256)),
          tile_list |-> Get(tc, "tile_list")]
    ELSE Undef

\* map_config of the transformed response
TransformMapConfig(data) ==
    IF Truthy(data.bounds)
    THEN [zoom |-> Or(Get(data.map_config, "zoom"), Num(6)),
          center |-> <<Mid(Get(data.bounds, "west"), Get(data.bounds, "east")),
                       Mid(Get(data.bounds, "north"), Get(data.bounds, "south"))>>]
    ELSE Undef

\* a transformation without the final check
KeepTiles(use_tiles, tile_config) == use_tiles

\* the final check: use_tiles without a tile_url is switched off
DisableTiles(use_tiles, tile_config) ==
    IF Truthy(use_tiles) /\ ~Truthy(Get(tile_config, "tile_url"))
    THEN Bool(FALSE) ELSE use_tiles

\* the object callMultiAgentFunction builds from the parsed JSON `data`
TransformResponse(data) ==
    [status |-> data.status,
     content |-> data.content,
     static_url |-> data.static_url,
     overlay_url |-> data.overlay_url,
     geojson |-> data.geojson,
     bounds |-> data.bounds,
     use_tiles |-> DisableTiles(Bool(Truthy(data.use_tiles)),
                                TransformTileConfig(data.tile_config)),
     tile_config |-> TransformTileConfig(data.tile_config),
     temperature_data |-> TemperatureData(data),
     map_config |-> TransformMapConfig(data),
     regions |-> data.regions,
     thread_id |-> data.thread_id,
     debug |-> data.debug,
     analysis_data |-> data.analysis_data]

\* whether the transformation throws a TypeError: a feature that is null
\* (f.geometry of null) makes the filter callback throw
TransformThrows(data) ==
    LET fs == Get(Get(data, "geojson"), "features")
    IN  Truthy(fs) /\ \E i \in 1..Len(fs.a) : fs.a[i] = Null

-----------------------------------------------------------------------------
(* components/HydrologyDarkChat and components/Chat: helpers of handleSubmit *)

\* the texts a user can have in the input box
Queries == {"", "   ", "show temperature in michigan", "drought in florida",
            "average rainfall"}

\* !query: the test without the trim
Empty(q) == q = ""

\* !query.trim()
Blank(q) == q \in {"", "   "}

Bounds(n, s, e, w) == [north |-> n, south |-> s, east |-> e, west |-> w]

\* getMapBounds: lowerQuery.includes(<state>) is read off the query text
getMapBounds(q) ==
    IF q = "drought in florida" THEN Bounds(Num(3100), Num(2450), Num(-8000), Num(-8760))
    ELSE IF q = "show temperature in michigan"
         THEN Bounds(Num(4830), Num(4170), Num(-8240), Num(-9040))
         ELSE Bounds(Num(4900), Num(2500), Num(-6600), Num(-12500))

\* the filter of handleSubmit: the coercing isFinite on lat, lng and value
HydroValid(f) == isFinite(f.lat) /\ isFinite(f.lng) /\ isFinite(f.value)

\* r.geojson.features after the filter/map of handleSubmit (undefined stays)
NormalizedFeatures(r) ==
    LET fs == Get(r.geojson, "features")
    IN  IF Truthy(fs) /\ Len(fs.a) > 0 THEN Arr(SelectSeq(fs.a, HydroValid)) ELSE fs

NormalizedGeoJson(r) ==
    IF Truthy(Get(r.geojson, "features")) /\ Len(r.geojson.features.a) > 0
    THEN [r.geojson EXCEPT !.features = NormalizedFeatures(r)]
    ELSE r.geojson

\* hasGeoJsonData after normalisation
HasGeoJsonData(r) ==
    LET fs == NormalizedFeatures(r)
    IN  Truthy(fs) /\ Len(fs.a) > 0

\* Math.max(...xs) and Math.min(...xs) over coerced members
RECURSIVE MaxOf(_, _)
MaxOf(xs, i) ==
    IF i = Len(xs) THEN ToNumber(xs[i]).n
    ELSE LET m == MaxOf(xs, i + 1)
         IN  IF ToNumber(xs[i]).n > m THEN ToNumber(xs[i]).n ELSE m

RECURSIVE MinOf(_, _)
MinOf(xs, i) ==
    IF i = Len(xs) THEN ToNumber(xs[i]).n
    ELSE LET m == MinOf(xs, i + 1)
         IN  IF ToNumber(xs[i]).n < m THEN ToNumber(xs[i]).n ELSE m

\* bounding box of the features whose coordinates are finite
GeoJsonBounds(fs) ==
    LET lats == [i \in 1..Len(fs) |-> fs[i].lat]
        lngs == [i \in 1..Len(fs) |-> fs[i].lng]
    IN  Bounds(Num(MaxOf(lats, 1)), Num(MinOf(lats, 1)),
               Num(MaxOf(lngs, 1)), Num(MinOf(lngs, 1)))

\* the test on r.bounds before it is taken as mapBounds
BackendBoundsUsable(b) ==
    /\ Truthy(b)
    /\ isFinite(Get(b, "north")) /\ isFinite(Get(b, "south"))
    /\ isFinite(Get(b, "east")) /\ isFinite(Get(b, "west"))

\* mapBounds: backend bounds, else GeoJSON bounding box, else query default
MapBounds(r, currentQuery) ==
    IF BackendBoundsUsable(r.bounds) THEN r.bounds
    ELSE IF HasGeoJsonData(r) THEN GeoJsonBounds(NormalizedFeatures(r).a)
    ELSE getMapBounds(currentQuery)

\* paddedBounds: each side moved out by 10% of the span
PaddedBounds(mb) ==
    LET latPadding == AbsTenth(JsSub(Get(mb, "north"), Get(mb, "south")))
        lngPadding == AbsTenth(JsSub(Get(mb, "east"), Get(mb, "west")))
    IN  Bounds(JsAdd(Get(mb, "north"), latPadding), JsSub(Get(mb, "south"), latPadding),
               JsAdd(Get(mb, "east"), lngPadding), JsSub(Get(mb, "west"), lngPadding))

\* center: r.map_config.center when present, else the middle of mapBounds
MapCenter(r, mb) ==
    LET c == Get(r.map_config, "center")
        mapCenter == IF c # Undef THEN c
                     ELSE <<Mid(Get(mb, "west"), Get(mb, "east")),
                            Mid(Get(mb, "north"), Get(mb, "south"))>>
    IN  [lat |-> mapCenter[2], lng |-> mapCenter[1]]

\* whether handleSubmit of HydrologyDarkChat builds mapData
HasArtifacts(r) ==
    \/ Truthy(Get(r, "static_url")) \/ Truthy(Get(r, "overlay_url"))
    \/ HasGeoJsonData(r) \/ Truthy(Get(r, "geotiff_url"))

\* the mapData object of HydrologyDarkChat
BuildMapData(r, currentQuery) ==
    LET mb == MapBounds(r, currentQuery)
    IN  [map_url |-> Or(Or(Get(r, "overlay_url"), Get(r, "static_url")), Str("")),
         bounds |-> PaddedBounds(mb),
         center |-> MapCenter(r, mb),
         zoom |-> Or(Get(r.map_config, "zoom"), Num(7)),
         azureData |->
            [static_url |-> Get(r, "static_url"),
             overlay_url |-> Get(r, "overlay_url"),
             geotiff_url |-> Get(r, "geotiff_url"),
             temperature_data |-> r.temperature_data,
             geojson |-> NormalizedGeoJson(r),
             bounds |-> mb,
             map_config |-> r.map_config,
             use_tiles |-> Get(r, "use_tiles"),
             tile_config |-> Get(r, "tile_config"),
             data_type |-> "unified_backend"]]

\* ---- the text of the answer -------------------------------------------

\* texts the backend puts in content or analysis_data.result
ANSWER == "The average temperature is 21.3 degrees"
COMPLETED == "Analysis completed: http://blob/plot.png"
MARKDOWN == "![map](http://blob/md.png)"
Contents == {ANSWER, COMPLETED, MARKDOWN}

\* /https?:\/\/[^\s]+/ : the first URL of a text, or "" when it has none
FirstUrl(text) ==
    IF text = COMPLETED THEN "http://blob/plot.png"
    ELSE IF text = MARKDOWN THEN "http://blob/md.png)" ELSE ""

\* extractMarkdownImage
extractMarkdownImage(text) ==
    IF text = MARKDOWN
    THEN [imageUrl |-> Str("http://blob/md.png"), cleanText |-> ""]
    ELSE [imageUrl |-> Null, cleanText |-> text]

\* cleanContent.includes('![') || (includes('[') && includes(']('))
HasMarkdownSyntax(text) == text = MARKDOWN

\* /\b(is|are|average|...)\b/i
LooksLikeAnswer(text) == text = ANSWER

\* the three replace() calls that drop the completion line and the URLs
StripCompletion(text) == IF text \in {COMPLETED, MARKDOWN} THEN "" ELSE text

\* cleanContent before the markdown step
RawContent(r) ==
    LET ad == r.analysis_data
        res == Get(ad, "result")
        fromResult == IF /\ Get(ad, "status") = Str("success") /\ Truthy(res)
                         /\ TypeOf(res) = "string" /\ FirstUrl(res.s) = ""
                      THEN res.s ELSE ""
    IN  IF fromResult = "" /\ Truthy(r.content)
        THEN IF TypeOf(r.content) = "string" THEN r.content.s ELSE ""
        ELSE fromResult

\* markdownExtractedUrl
MarkdownExtractedUrl(r) ==
    IF HasMarkdownSyntax(RawContent(r))
    THEN extractMarkdownImage(RawContent(r)).imageUrl ELSE Null

\* the final cleanContent
CleanContent(r) ==
    LET c0 == RawContent(r)
        md == MarkdownExtractedUrl(r)
        c1 == IF Truthy(md) THEN extractMarkdownImage(c0).cleanText ELSE c0
        c2 == IF ~Truthy(md) /\ c1 # "" /\ (~LooksLikeAnswer(c1) \/ c1 = COMPLETED)
              THEN StripCompletion(c1) ELSE c1
    IN  IF c2 = "" THEN "Analysis completed successfully." ELSE c2

\* ---- the assistant message --------------------------------------------

Message(role, text, imageUrl, mapData) ==
    [role |-> role, text |-> text, imageUrl |-> imageUrl, mapData |-> mapData]

UserMessage(q) == Message("user", <<q>>, Undef, Undef)

\* a handleSubmit that does not look for an error status
NoErrorCheck(r) == FALSE

\* r.status === 'error' || r.analysis_data.status === 'error'
HasError(r) ==
    \/ Get(r, "status") = Str("error")
    \/ Get(r.analysis_data, "status") = Str("error")

\* the message of the error branch of HydrologyDarkChat
ErrorMessage(r) ==
    LET errorMessage == Or(Or(Get(r, "error"), Get(r.analysis_data, "error")),
                           Str("An error occurred during analysis"))
        suggestion == Get(r.analysis_data, "suggestion")
    IN  Message("assistant",
                <<"(warning sign) Error: ", errorMessage.s, "\n\n",
                  IF Truthy(suggestion) THEN suggestion.s ELSE "">>,
                Undef, Undef)

\* imageUrl of the answer: static_url with artifacts, else the first URL of
\* content; a markdown image overrides both
ImageUrl(r) ==
    LET md == MarkdownExtractedUrl(r)
        fromContent == IF TypeOf(r.content) = "string" /\ FirstUrl(r.content.s) # ""
                       THEN Str(FirstUrl(r.content.s)) ELSE Null
    IN  IF Truthy(md) THEN md
        ELSE IF HasArtifacts(r) THEN Get(r, "static_url") ELSE fromContent

\* the assistant message HydrologyDarkChat builds from a response
AnswerMessage(r, currentQuery) ==
    Message("assistant", <<CleanContent(r)>>, ImageUrl(r),
            IF HasArtifacts(r) THEN BuildMapData(r, currentQuery) ELSE Undef)

\* setDebug((r?.debug ?? r) || null)
DebugOf(r) == Or(Coalesce(r.debug, r), Null)

\* a catch block that shows the raw error text only
FailureMessageBare(errMessage) ==
    Message("assistant", <<errMessage>>, Undef, Undef)

\* the message and error text of the catch block
FailureMessage(errMessage) ==
    Message("assistant",
            <<"Request failed: ",
              IF errMessage # "" THEN errMessage ELSE "Backend connection error">>,
            Undef, Undef)

FailureBanner(errMessage) ==
    <<"Connection failed: ", IF errMessage # "" THEN errMessage ELSE "Unknown error">>

\* ---- components/Chat: the older chat component ------------------------

\* a region passes the filter when the coercing isFinite accepts its members
RegionValid(p) ==
    /\ Truthy(p) /\ isFinite(Get(p, "latitude")) /\ isFinite(Get(p, "longitude"))
    /\ isFinite(Get(p, "value"))

\* extremeRegions: r.regions when it is a non-empty array
ValidRegions(r) ==
    LET rs == Get(r, "regions")
    IN  IF Truthy(rs) /\ rs.t = "array" THEN SelectSeq(rs.a, RegionValid) ELSE <<>>

\* p.latitude.toFixed(2) throws unless latitude and longitude are numbers;
\* p.value.toFixed(3) throws unless value is one
RegionsThrow(r) ==
    \E i \in 1..Len(ValidRegions(r)) :
        \/ TypeOf(ValidRegions(r)[i].latitude) # "number"
        \/ TypeOf(ValidRegions(r)[i].longitude) # "number"
        \/ TypeOf(ValidRegions(r)[i].value) # "number"

\* hasStaticUrl || hasOverlayUrl || hasGeoTiffUrl
HasMapArtifacts(r) ==
    \/ Truthy(Get(r, "static_url")) \/ Truthy(Get(r, "overlay_url"))
    \/ Truthy(Get(r, "geotiff_url"))

\* Math.max(0.1, span * 0.2), in hundredths of a degree
RegionPad(span) == IF span \div 5 > 10 THEN span \div 5 ELSE 10

\* the standalone mapData built from regions alone
RegionMapData(r) ==
    LET ps == ValidRegions(r)
        lats == [i \in 1..Len(ps) |-> ps[i].latitude]
        lngs == [i \in 1..Len(ps) |-> ps[i].longitude]
        n == MaxOf(lats, 1)
        so == MinOf(lats, 1)
        e == MaxOf(lngs, 1)
        w == MinOf(lngs, 1)
    IN  [map_url |-> Str(""),
         bounds |-> Bounds(Num(n + RegionPad(n - so)), Num(so - RegionPad(n - so)),
                           Num(e + RegionPad(e - w)), Num(w - RegionPad(e - w))),
         center |-> [lat |-> Num((n + so) \div 2), lng |-> Num((e + w) \div 2)],
         zoom |-> Num(8),
         azureData |->
            [static_url |-> Undef, overlay_url |-> Undef, geotiff_url |-> Undef,
             temperature_data |->
                [i \in 1..Len(ps) |-> [latitude |-> ps[i].latitude,
                                       longitude |-> ps[i].longitude,
                                       value |-> ps[i].value]],
             geojson |-> [features |->
                Arr([i \in 1..Len(ps) |->
                        Feature(ps[i].longitude, ps[i].latitude, ps[i].value)])],
             bounds |-> Undef, map_config |-> Undef, use_tiles |-> Undef,
             tile_config |-> Undef, data_type |-> "extreme_regions"]]

\* r.geojson after Chat's filter (features replaced by the valid ones)
ChatGeoJson(r) == NormalizedGeoJson(r)

\* whether Chat builds or keeps a mapData
ChatHasMap(r) ==
    \/ HasMapArtifacts(r) \/ HasGeoJsonData(r) \/ Len(r.temperature_data) > 0
    \/ Len(ValidRegions(r)) > 0

\* mapData of Chat: the region map when regions are all there is to show on
\* a map, otherwise the same construction as HydrologyDarkChat
ChatMapData(r, currentQuery) ==
    IF Len(ValidRegions(r)) > 0 /\ ~HasMapArtifacts(r)
    THEN RegionMapData(r)
    ELSE BuildMapData(r, currentQuery)

\* Chat's text: URLs are always stripped from content
ChatText(r) ==
    LET c == IF TypeOf(r.content) = "string" THEN r.content.s ELSE ""
        stripped == IF c = COMPLETED THEN "" ELSE IF c = MARKDOWN THEN "![map](" ELSE c
        body == IF stripped = "" THEN "Analysis completed." ELSE stripped
    IN  IF Len(ValidRegions(r)) > 0
        THEN <<"Top regions: ", body>>
        ELSE IF ChatHasMap(r) /\ Len(r.temperature_data) > 0
             THEN <<body, "Interactive map ready">>
             ELSE <<body>>

\* the assistant message Chat builds from a response
ChatAnswerMessage(r, currentQuery) ==
    Message("assistant", ChatText(r),
            IF ChatHasMap(r) THEN Get(r, "static_url")
            ELSE IF TypeOf(r.content) = "string" /\ FirstUrl(r.content.s) # ""
                 THEN Str(FirstUrl(r.content.s)) ELSE Null,
            IF ChatHasMap(r) THEN ChatMapData(r, currentQuery) ELSE Undef)

\* ---- what the message list shows for one message -----------------------

\* src of the static <img> rendered for message m, Undef when none is rendered
StaticImageSrc(comp, key, m) ==
    LET static == Get(Get(m.mapData, "azureData"), "static_url")
    IN  IF comp = "HydrologyDarkChat"
        THEN IF (Truthy(m.mapData) \/ Truthy(m.imageUrl))
                /\ (Truthy(static) \/ Truthy(m.imageUrl))
             THEN Or(Or(static, m.imageUrl), Str(""))
             ELSE Undef
        ELSE IF Truthy(m.mapData) /\ key # ""
             THEN IF Truthy(static) THEN static ELSE Undef
             ELSE IF ~Truthy(m.mapData) /\ Truthy(m.imageUrl) THEN m.imageUrl ELSE Undef

\* whether the interactive AzureMapView is mounted for message m
MapViewShown(key, m) == Truthy(m.mapData) /\ key # ""

-----------------------------------------------------------------------------
(* The backend's JSON envelopes *)

\* one entry of regions
Region(latitude, longitude, value) ==
    [latitude |-> latitude, longitude |-> longitude, value |-> value]

\* an envelope with every optional member absent
Envelope ==
    [status |-> Str("success"), content |-> Str(ANSWER), static_url |-> Undef,
     overlay_url |-> Undef, geotiff_url |-> Undef, geojson |-> Undef,
     bounds |-> Undef, use_tiles |-> Undef, tile_config |-> Undef,
     map_config |-> Undef, regions |-> Undef, thread_id |-> Undef,
     debug |-> Undef, analysis_data |-> Undef, error |-> Undef]

GoodBounds == Bounds(Num(4000), Num(3000), Num(-7000), Num(-8000))

STATIC_URL == "http://blob/static.png"
OVERLAY_URL == "http://blob/overlay.png"
GEOTIFF_URL == "http://blob/data.tif"

\* the envelopes the conversation model lets the backend answer with
ChatEnvelopes ==
    { [Envelope EXCEPT !.thread_id = Str("thread-1")],
      [Envelope EXCEPT !.thread_id = Str("thread-2"), !.content = Str(COMPLETED),
                       !.static_url = Str(STATIC_URL), !.bounds = GoodBounds],
      [Envelope EXCEPT !.status = Str("error"), !.static_url = Str(STATIC_URL),
                       !.analysis_data = [status |-> Str("error"),
                                          error |-> Str("no data for that date"),
                                          suggestion |-> Undef]],
      [Envelope EXCEPT !.geojson = [features |-> Arr(<<Null>>)]],
      [Envelope EXCEPT !.regions = Arr(<<Region(NumStr(3500), Num(-7500), Num(2))>>)] }

\* messages of the errors that make callMultiAgentFunction reject
NETWORK_ERROR == "Failed to fetch"
HTTP_ERROR == "HTTP 500: Internal Server Error"
JSON_ERROR == "Unexpected token < in JSON at position 0"
TYPE_ERROR == "Cannot read properties of null (reading 'geometry')"
TOFIXED_ERROR == "p.latitude.toFixed is not a function"

-----------------------------------------------------------------------------
(* The chat component and its backend calls *)

Components == {"HydrologyDarkChat", "Chat"}

\* the argument handleSubmit passes to callMultiAgentFunction
RequestData(comp, text, uid, tid) ==
    IF comp = "HydrologyDarkChat"
    THEN [action |-> "generate",
          data |-> [query |-> Str(text), user_id |-> Str(uid), thread_id |-> tid]]
    ELSE [action |-> "generate", data |-> [query |-> Str(text)]]

\* a client that sends every request twice
FetchTwice(log, request) == Append(Append(log, request), request)

\* fetch(endpoint, ...): one request goes out
Fetch(log, request) == Append(log, request)

\* the request callMultiAgentFunction sends
Post(requestData, uid) ==
    [method |-> "POST", path |-> "/api/chat", xUserId |-> uid,
     body |-> RequestBody(requestData, uid)]

\* a setMessages that drops what the list held
ReplaceMessages(prev, msg) == <<msg>>

\* setMessages((prev) => [...prev, msg])
AppendMessage(prev, msg) == Append(prev, msg)

\* an input box that stays enabled
InputNeverDisabled(isLoading) == FALSE

\* <input disabled={loading}>
InputDisabled(isLoading) == isLoading

\* the Send button: disabled={loading || !query.trim()} in HydrologyDarkChat,
\* disabled={loading} in Chat; a form whose submit button is disabled is not
\* submitted by Enter either
SendDisabled(comp, isLoading, q) ==
    IF comp = "HydrologyDarkChat" THEN isLoading \/ Blank(q) ELSE isLoading

\* no AzureMapView has been rendered
NoMapView ==
    /\ mounted = FALSE
    /\ props = Undef
    /\ effectRuns = 0
    /\ cleanupPending = FALSE
    /\ maps = <<>>
    /\ mapInstanceRef = 0
    /\ timers = {}
    /\ overlay = [ran |-> FALSE]
    /\ nativeTiles = "absent"
    /\ hoverTimers = {}
    /\ popup = [opened |-> FALSE]
    /\ geotiff = [pc |-> "not called"]
    /\ connection = [pc |-> "not called"]
    /\ pixel = [pc |-> "not called"]

Init ==
    /\ component \in Components
    /\ azureMapsKey = "azure-key"        \* read by the message list only
    /\ query = ""
    /\ loading = FALSE
    /\ error = Null
    /\ messages = <<>>
    /\ debug = Null
    /\ userId = ""
    /\ threadId = Null
    /\ initPc = "start"
    /\ \E stored \in {Undef, Str("uuid-a")} :
         localStorage = [k \in StorageKeys |->
                            IF k = STORAGE_KEY THEN stored ELSE Str("dark")]
    /\ issued = {}
    /\ calls = {}
    /\ posts = <<>>
    /\ submits = 0
    /\ invoked = 0
    /\ lastSettle = [kind |-> "none"]
    /\ NoMapView

\* the mount effect: initUser reads or creates the identifier
InitUser ==
    /\ initPc = "start"
    /\ \E fresh \in UUIDs :
         LET got == getStableUserId(localStorage, fresh)
         IN  /\ localStorage' = got.store
             /\ userId' = got.id
             /\ issued' = issued \cup {got.id}
    /\ initPc' = "probing"
    /\ UNCHANGED mapVars
    /\ UNCHANGED <<component, azureMapsKey, query, loading, error, messages, debug,
                   threadId, calls, posts, submits, invoked, lastSettle>>

\* onChange of the input box, which is disabled while loading
SetQuery ==
    /\ initPc # "start"
    /\ ~InputDisabled(loading)
    /\ \E q \in Queries : query' = q
    /\ UNCHANGED mapVars
    /\ UNCHANGED <<component, azureMapsKey, loading, error, messages, debug, userId,
                   threadId, initPc, localStorage, issued, calls, posts, submits,
                   invoked, lastSettle>>

\* handleSubmit with a blank query: the early return
HandleSubmitBlank ==
    /\ initPc # "start"
    /\ ~SendDisabled(component, loading, query)
    /\ Blank(query)
    /\ UNCHANGED vars

\* handleSubmit up to the point where the fetch is in flight: the user
\* message, the state resets, and callMultiAgentFunction up to its fetch
HandleSubmit ==
    /\ initPc # "start"
    /\ ~SendDisabled(component, loading, query)
    /\ ~Blank(query)
    /\ submits < MaxSubmits
    /\ messages' = AppendMessage(messages, UserMessage(query))
    /\ query' = ""
    /\ error' = Null
    /\ loading' = TRUE
    /\ submits' = submits + 1
    /\ invoked' = invoked + 1
    /\ \E fresh \in UUIDs :
         LET got == getStableUserId(localStorage, fresh)
             req == RequestData(component, query, userId, threadId)
         IN  /\ localStorage' = got.store
             /\ issued' = issued \cup {got.id}
             /\ posts' = Fetch(posts, Post(req, got.id))
             /\ calls' = calls \cup {[id |-> invoked + 1, currentQuery |-> query,
                                      stage |-> "fetch", ok |-> FALSE]}
    /\ UNCHANGED mapVars
    /\ UNCHANGED <<component, azureMapsKey, debug, userId, threadId, initPc, lastSettle>>

\* a handleSubmit without its finally block
NoFinally(isLoading) == isLoading

\* the finally block of handleSubmit: setLoading(false)
Finally(isLoading) == FALSE

\* the catch and finally blocks of handleSubmit
Catch(c, errMessage, kind) ==
    /\ error' = FailureBanner(errMessage)
    /\ messages' = AppendMessage(messages, FailureMessage(errMessage))
    /\ loading' = Finally(loading)
    /\ calls' = calls \ {c}
    /\ lastSettle' = [kind |-> kind, id |-> c.id]
    /\ UNCHANGED mapVars
    /\ UNCHANGED <<component, azureMapsKey, query, debug, userId, threadId, initPc,
                   localStorage, issued, posts, submits, invoked>>

\* fetch rejects: the network is down or the request is blocked
NetworkError ==
    \E c \in calls : c.stage = "fetch" /\ Catch(c, NETWORK_ERROR, "rejected")

\* fetch resolves with the response head; the body is still to be read
ResponseHead ==
    \E c \in calls, ok \in BOOLEAN :
        /\ c.stage = "fetch"
        /\ calls' = (calls \ {c}) \cup {[c EXCEPT !.stage = "body", !.ok = ok]}
        /\ UNCHANGED mapVars
        /\ UNCHANGED <<component, azureMapsKey, query, loading, error, messages, debug,
                       userId, threadId, initPc, localStorage, issued, posts, submits,
                       invoked, lastSettle>>

\* a non-2xx status: the error text is read and an Error is thrown
HttpError ==
    \E c \in calls : c.stage = "body" /\ ~c.ok /\ Catch(c, HTTP_ERROR, "rejected")

\* response.json() rejects: the body is not JSON
InvalidJson ==
    \E c \in calls : c.stage = "body" /\ c.ok /\ Catch(c, JSON_ERROR, "rejected")

\* the body parses, but transforming it throws
TransformError(envelopes) ==
    \E c \in calls, data \in envelopes :
        c.stage = "body" /\ c.ok /\ TransformThrows(data) /\ Catch(c, TYPE_ERROR, "rejected")

\* callMultiAgentFunction resolves, but the try block of Chat's handleSubmit
\* throws while it formats the regions
ProcessingError(envelopes) ==
    \E c \in calls, data \in envelopes :
        /\ c.stage = "body" /\ c.ok /\ ~TransformThrows(data)
        /\ component = "Chat"
        /\ RegionsThrow(TransformResponse(data))
        /\ Catch(c, TOFIXED_ERROR, "threw")

\* the body parses and callMultiAgentFunction resolves: the rest of the try
\* block of handleSubmit, and its finally
HandleResponse(envelopes) ==
    \E c \in calls, data \in envelopes :
        /\ c.stage = "body" /\ c.ok /\ ~TransformThrows(data)
        /\ ~(component = "Chat" /\ RegionsThrow(TransformResponse(data)))
        /\ LET r == TransformResponse(data)
           IN  /\ threadId' = IF component = "HydrologyDarkChat" /\ Truthy(r.thread_id)
                              THEN r.thread_id ELSE threadId
               /\ messages' = AppendMessage(messages,
                     IF component = "HydrologyDarkChat"
                     THEN IF HasError(r) THEN ErrorMessage(r)
                          ELSE AnswerMessage(r, c.currentQuery)
                     ELSE ChatAnswerMessage(r, c.currentQuery))
               /\ debug' = DebugOf(r)
               /\ lastSettle' = [kind |-> "resolved", id |-> c.id, data |-> data,
                                 response |-> r, currentQuery |-> c.currentQuery]
        /\ loading' = Finally(loading)
        /\ calls' = calls \ {c}
        /\ UNCHANGED mapVars
        /\ UNCHANGED <<component, azureMapsKey, query, error, userId, initPc,
                       localStorage, issued, posts, submits, invoked>>

\* the New Chat button
handleNewConversation ==
    /\ initPc # "start"
    /\ localStorage' = clearUserId(localStorage)
    /\ issued' = {}
    /\ userId' = ""
    /\ threadId' = Null
    /\ messages' = <<>>
    /\ error' = Null
    /\ debug' = Null
    /\ UNCHANGED mapVars
    /\ UNCHANGED <<component, azureMapsKey, query, loading, initPc, calls, posts,
                   submits, invoked, lastSettle>>

Next ==
    \/ InitUser
    \/ SetQuery
    \/ HandleSubmitBlank
    \/ HandleSubmit
    \/ NetworkError
    \/ ResponseHead
    \/ HttpError
    \/ InvalidJson
    \/ TransformError(ChatEnvelopes)
    \/ ProcessingError(ChatEnvelopes)
    \/ HandleResponse(ChatEnvelopes)
    \/ handleNewConversation

Spec == Init /\ [][Next]_vars

-----------------------------------------------------------------------------
(* One response, from the parsed body to the rendered message *)

TILE_URL == "http://backend/tiles/{z}/{x}/{y}.png"

TILE_PNG == "http://blob/tiles/6/17/24.png"

\* one entry of tile_config.tile_list
Tile(url, z, x, y) == [url |-> url, bounds |-> GoodBounds, z |-> z, x |-> x, y |-> y]

GoodTile == Tile(Str(TILE_PNG), Num(6), Num(17), Num(24))

\* the tile east of it
NEXT_TILE_PNG == "http://blob/tiles/6/18/24.png"

NextTile == Tile(Str(NEXT_TILE_PNG), Num(6), Num(18), Num(24))

\* the shapes of tile_config the backend has sent
TileConfigs ==
    { Undef,
      [variable |-> Str("Tair")],
      [tile_url |-> Str(TILE_URL)],
      [tile_url |-> Str(TILE_URL), tile_list |-> Arr(<<GoodTile>>)],
      [tile_list |-> Arr(<<GoodTile>>)] }

\* JSON values of use_tiles
UseTiles == {Undef, Bool(FALSE), Bool(TRUE), Num(1)}

\* envelopes that vary the artifact URLs and the tile members
UrlEnvelopes ==
    { [Envelope EXCEPT !.static_url = su, !.overlay_url = ou, !.geotiff_url = gu,
                       !.use_tiles = ut, !.tile_config = tc, !.bounds = b,
                       !.content = Str(c), !.status = Str(st)] :
        su \in {Undef, Str(""), Str(STATIC_URL)},
        ou \in {Undef, Str(OVERLAY_URL)},
        gu \in {Undef, Str(GEOTIFF_URL)},
        ut \in UseTiles,
        tc \in TileConfigs,
        b \in {Undef, GoodBounds},
        c \in Contents,
        st \in {"success", "error"} }

\* features: two good ones, one with coordinates as strings, one without a
\* value, one with null coordinates, and a null entry
Features ==
    { Feature(Num(-7500), Num(3500), Num(12)),
      Feature(Num(-7300), Num(3700), Num(15)),
      Feature(NumStr(-7400), NumStr(3600), Num(9)),
      Feature(Num(-7500), Num(3500), Undef),
      Feature(Null, Null, Num(3)),
      Null }

FeatureLists == UNION { [1..n -> Features] : n \in 0..MaxFeatures }

\* envelopes that vary the GeoJSON
GeoEnvelopes ==
    { [Envelope EXCEPT !.geojson = [features |-> Arr(fs)], !.static_url = su] :
        fs \in FeatureLists, su \in {Undef, Str(STATIC_URL)} }

\* JSON values of one member of bounds, around the number n
BoundValues(n) == {Num(n), NumStr(n), Null, Undef}

\* envelopes that vary bounds, with and without GeoJSON to fall back on
BoundsEnvelopes ==
    { [Envelope EXCEPT !.bounds = b, !.geojson = g, !.static_url = su] :
        b \in {Null} \cup
              { Bounds(n, so, e, w) : n \in BoundValues(4000), so \in BoundValues(3000),
                                      e \in BoundValues(-7000), w \in BoundValues(-8000) },
        g \in {Undef, [features |-> Arr(<<Feature(Num(-7500), Num(3500), Num(12)),
                                         Feature(Num(-7300), Num(3700), Num(15))>>)]},
        su \in {Undef, Str(STATIC_URL)} }

\* envelopes that carry regions
RegionEnvelopes ==
    { [Envelope EXCEPT !.regions = Arr(rs), !.static_url = su] :
        rs \in { <<Region(Num(3500), Num(-7500), Num(2))>>,
                 <<Region(Num(3500), Num(-7500), Num(2)),
                   Region(Num(3900), Num(-7100), Num(4))>>,
                 <<Region(NumStr(3500), Num(-7500), Num(2))>>,
                 <<Region(Num(3500), Num(-7500), Undef)>> },
        su \in {Undef, Str(STATIC_URL)} }

AllEnvelopes ==
    ChatEnvelopes \cup UrlEnvelopes \cup GeoEnvelopes \cup BoundsEnvelopes
        \cup RegionEnvelopes

\* the state in which a response body arrives: the first request of a
\* conversation is in flight and its response head was a 2xx
RespInit ==
    /\ component \in Components
    /\ azureMapsKey \in {"", "azure-key"}    \* VITE_AZURE_MAPS_SUBSCRIPTION_KEY
    /\ query = ""
    /\ loading = TRUE
    /\ error = Null
    /\ \E q \in {x \in Queries : ~Blank(x)} :
         /\ messages = <<UserMessage(q)>>
         /\ calls = {[id |-> 1, currentQuery |-> q, stage |-> "body", ok |-> TRUE]}
         /\ posts = <<Post(RequestData(component, q, "uuid-a", Null), "uuid-a")>>
    /\ debug = Null
    /\ userId = "uuid-a"
    /\ threadId = Null
    /\ initPc = "probing"
    /\ localStorage = [k \in StorageKeys |->
                          IF k = STORAGE_KEY THEN Str("uuid-a") ELSE Str("dark")]
    /\ issued = {"uuid-a"}
    /\ submits = 1
    /\ invoked = 1
    /\ lastSettle = [kind |-> "none"]
    /\ NoMapView

RespNext ==
    \/ TransformError(AllEnvelopes)
    \/ ProcessingError(AllEnvelopes)
    \/ HandleResponse(AllEnvelopes)

RespSpec == RespInit /\ [][RespNext]_vars

-----------------------------------------------------------------------------
(* components/AzureMapView: the overlay processing of the 1500 ms timer *)

COMPARISON_URL == "http://blob/comparison_2020_vs_2021.png"
RELATIVE_URL == "/static/map.png"

\* url.startsWith('http')
StartsWithHttp(url) == url.t = "string" /\ url.s \notin {"", RELATIVE_URL}

\* url.includes(n.toString()) for the tile urls of the model
UrlIncludes(url, n) ==
    \/ url.s = TILE_PNG /\ n.n \in {6, 17, 24}
    \/ url.s = NEXT_TILE_PNG /\ n.n \in {6, 18, 24}

\* the test of tile_list.every(...)
TileValid(tile) ==
    /\ Truthy(tile)
    /\ TypeOf(Get(tile, "url")) = "string" /\ StartsWithHttp(tile.url)
    /\ Truthy(Get(tile, "bounds"))
    /\ TypeOf(Get(tile, "z")) = "number"
    /\ TypeOf(Get(tile, "x")) = "number"
    /\ TypeOf(Get(tile, "y")) = "number"

hasValidTileList(tileConfig) ==
    LET tl == Get(tileConfig, "tile_list")
    IN  /\ Truthy(tl) /\ "t" \in DOMAIN tl /\ tl.t = "array"
        /\ Len(tl.a) > 0
        /\ \A i \in 1..Len(tl.a) : TileValid(tl.a[i])

\* a check of the first tile that accepts every url
AnyTilePattern(tileConfig) == TRUE

hasValidTilePattern(tileConfig) ==
    /\ hasValidTileList(tileConfig)
    /\ LET firstTile == tileConfig.tile_list.a[1]
       IN  /\ UrlIncludes(firstTile.url, firstTile.z)
           /\ UrlIncludes(firstTile.url, firstTile.x)
           /\ UrlIncludes(firstTile.url, firstTile.y)

\* a layer handed to map.layers.add, tagged with the function that added it
Layer(kind, by) == [kind |-> kind, by |-> by]

\* addBoundsDiagnosticRect: a PolygonLayer around the requested bounds
addBoundsDiagnosticRect == <<Layer("PolygonLayer", "renderWithTiles")>>

\* renderWithTiles: the native TileLayer when atlas offers one and building
\* it does not throw, and the diagnostic rectangle in every case
renderWithTiles(tileConfig, native) ==
    IF ~Truthy(Get(tileConfig, "tile_url")) THEN <<>>
    ELSE IF native = "works"
         THEN <<Layer("TileLayer", "renderWithTiles")>> \o addBoundsDiagnosticRect
         ELSE addBoundsDiagnosticRect

handleWeatherResponse(response, native) ==
    IF Truthy(Get(response, "use_tiles")) /\ Truthy(Get(response, "tile_config"))
    THEN renderWithTiles(response.tile_config, native)
    ELSE <<>>

\* tile.url && tile.bounds
TileLoadable(tile) == Truthy(Get(tile, "url")) /\ Truthy(Get(tile, "bounds"))

\* loadBackendTiles: one ImageLayer per tile that has a url and bounds;
\* clearExistingWeatherTiles removes layers whose id contains 'weather' or
\* 'tile', and no layer of this component is created with such an id
loadBackendTiles(tileList) ==
    [i \in 1..Len(SelectSeq(tileList, TileLoadable)) |->
        Layer("ImageLayer", "loadBackendTiles")]

isComparison(staticUrl) == Truthy(staticUrl) /\ staticUrl.s = COMPARISON_URL

\* the defaultBounds of the effect
DefaultBounds == Bounds(Num(4900), Num(2500), Num(-6600), Num(-12500))

\* addPngOverlay: one ImageLayer unless the url or the bounds are refused
addPngOverlay(mapData) ==
    LET az == Get(mapData, "azureData")
        imageUrl == Or(Get(az, "overlay_url"), Get(az, "static_url"))
        ob == Or(Or(Get(az, "bounds"), Get(mapData, "bounds")), DefaultBounds)
    IN  IF ~Truthy(imageUrl) \/ ~StartsWithHttp(imageUrl) THEN <<>>
        ELSE IF \/ ~isFinite(Get(ob, "north")) \/ ~isFinite(Get(ob, "south"))
                \/ ~isFinite(Get(ob, "east")) \/ ~isFinite(Get(ob, "west"))
             THEN <<>>
        ELSE IF JsLessEq(ob.north, ob.south) THEN <<>>
        ELSE IF JsLessEq(ob.east, ob.west) THEN <<>>
        ELSE <<Layer("ImageLayer", "addPngOverlay")>>

\* the bounds addPngOverlay hands to map.setCamera, Undef when it returns
\* before it reaches the map
addPngOverlayCamera(mapData) ==
    IF addPngOverlay(mapData) = <<>> THEN Undef
    ELSE LET az == Get(mapData, "azureData")
         IN  Or(Or(Get(az, "bounds"), Get(mapData, "bounds")), DefaultBounds)

\* the filter of processTemperatureData
HoverValid(f) ==
    /\ IsFiniteNumber(f.lat) /\ f.lat.n >= -9000 /\ f.lat.n <= 9000
    /\ IsFiniteNumber(f.lng) /\ f.lng.n >= -18000 /\ f.lng.n <= 18000
    /\ IsFiniteNumber(f.value)

\* whether processTemperatureData registers the hover handlers
HoverRegistered(mapData) ==
    LET az == Get(mapData, "azureData")
        fs == Get(Get(az, "geojson"), "features")
    IN  Truthy(fs) /\ \E i \in 1..Len(fs.a) : HoverValid(fs.a[i])

\* the body of the timer callback for one mapData: the layers it adds, in
\* order, the bounds it moves the camera to, and whether it registers hover
\* handlers
OverlayProcessing(mapData, native) ==
    LET az == Get(mapData, "azureData")
        useTiles == Get(az, "use_tiles") = Bool(TRUE)
        tileConfig == Get(az, "tile_config")
        overlayUrl == Get(az, "overlay_url")
        staticUrl == Get(az, "static_url")
        fs == Get(Get(az, "geojson"), "features")
        hasGeoJsonData == Truthy(fs) /\ Len(fs.a) > 0
        hasBounds == Truthy(Get(az, "bounds")) \/ Truthy(Get(mapData, "bounds"))
        weather == handleWeatherResponse(az, native)
    IN  IF useTiles /\ Truthy(tileConfig) /\ Truthy(Get(tileConfig, "tile_url"))
        THEN IF hasValidTileList(tileConfig) /\ hasValidTilePattern(tileConfig)
             THEN [layers |-> weather \o loadBackendTiles(tileConfig.tile_list.a),
                   camera |-> Undef,
                   hover |-> hasGeoJsonData /\ HoverRegistered(mapData)]
             ELSE [layers |-> weather, camera |-> Undef, hover |-> FALSE]
        ELSE IF (Truthy(overlayUrl) \/ Truthy(staticUrl)) /\ hasBounds /\ ~useTiles
        THEN [layers |-> weather \o (IF isComparison(staticUrl) THEN <<>>
                                     ELSE addPngOverlay(mapData)),
              camera |-> IF isComparison(staticUrl) THEN Undef
                         ELSE addPngOverlayCamera(mapData),
              hover |-> hasGeoJsonData /\ HoverRegistered(mapData)]
        ELSE IF hasGeoJsonData /\ ~useTiles /\ ~Truthy(overlayUrl) /\ ~Truthy(staticUrl)
        THEN [layers |-> weather, camera |-> Undef, hover |-> HoverRegistered(mapData)]
        ELSE [layers |-> weather, camera |-> Undef, hover |-> FALSE]

\* ---- the mapData the chat components hand to the view ------------------

StringBounds == Bounds(NumStr(4000), NumStr(3000), NumStr(-7000), NumStr(-8000))

\* bounds whose south is null, and bounds whose north is a numeric string
NullSouthBounds == Bounds(Num(4000), Null, Num(-7000), Num(-8000))
StringNorthBounds == Bounds(NumStr(4000), Num(3000), Num(-7000), Num(-8000))

\* tile lists: a valid one, one of two tiles, one whose second tile lacks its
\* indices, one whose url does not carry the indices, and an empty one
TileLists ==
    { <<GoodTile>>,
      <<GoodTile, NextTile>>,
      <<GoodTile, Tile(Str(TILE_PNG), Undef, Undef, Undef)>>,
      <<Tile(Str(TILE_PNG), Num(5), Num(17), Num(24))>>,
      <<>> }

MapTileConfigs ==
    {Undef, [tile_url |-> Str(TILE_URL)], [tile_list |-> Arr(<<GoodTile>>)]}
        \cup { [tile_url |-> Str(TILE_URL), tile_list |-> Arr(tl)] : tl \in TileLists }

\* static_url and overlay_url as they come together
UrlPairs ==
    { <<Undef, Undef>>, <<Str(STATIC_URL), Undef>>, <<Str(COMPARISON_URL), Undef>>,
      <<Undef, Str(OVERLAY_URL)>>, <<Str(STATIC_URL), Str(OVERLAY_URL)>>,
      <<Undef, Str(RELATIVE_URL)>>, <<Str(STATIC_URL), Str(RELATIVE_URL)>> }

\* use_tiles and tile_config as they come together
TilePairs ==
    { <<Bool(TRUE), tc>> : tc \in MapTileConfigs }
        \cup { <<Bool(FALSE), Undef>>,
               <<Bool(FALSE), [tile_url |-> Str(TILE_URL), tile_list |-> Arr(<<GoodTile>>)]>> }

\* bounds and geojson as they come together
PlacePairs ==
    { <<Undef, Undef>>, <<GoodBounds, Undef>>, <<StringBounds, Undef>>,
      <<NullSouthBounds, Undef>>, <<StringNorthBounds, Undef>>,
      <<Undef, [features |-> Arr(<<Feature(Num(-7500), Num(3500), Num(12))>>)]>>,
      <<GoodBounds, [features |-> Arr(<<Feature(Num(-7500), Num(3500), Num(12))>>)]>> }

MapEnvelopes ==
    { [Envelope EXCEPT !.static_url = u[1], !.overlay_url = u[2], !.use_tiles = t[1],
                       !.tile_config = t[2], !.bounds = pl[1], !.geojson = pl[2]] :
        u \in UrlPairs, t \in TilePairs, pl \in PlacePairs }

\* every mapData handleSubmit builds from those envelopes
MapDatas ==
    { BuildMapData(TransformResponse(d), "average rainfall") :
        d \in {e \in MapEnvelopes : HasArtifacts(TransformResponse(e))} }

\* the mapData a re-render can bring: tiles, or a PNG overlay
NextMapDatas ==
    { BuildMapData(TransformResponse(d), "average rainfall") :
        d \in { [Envelope EXCEPT !.static_url = Str(STATIC_URL), !.use_tiles = Bool(TRUE),
                                 !.tile_config = [tile_url |-> Str(TILE_URL),
                                                  tile_list |-> Arr(<<GoodTile>>)]],
                [Envelope EXCEPT !.overlay_url = Str(OVERLAY_URL), !.bounds = GoodBounds] } }

\* ---- the effect and its cleanup -----------------------------------------

\* an effect that does not keep the map it creates
KeepRef(ref, m) == ref

\* mapInstanceRef.current = map
StoreRef(ref, m) == m

\* the cleanup function of the effect, run when `pending` says one was
\* returned: it disposes whatever map mapInstanceRef.current holds
CleanedUp(ms, ref, pending, run) ==
    IF pending /\ ref # 0
    THEN [maps |-> [ms EXCEPT ![ref].disposed = TRUE, ![ref].disposedBy = run],
          ref |-> 0]
    ELSE [maps |-> ms, ref |-> ref]

\* one run of the effect with props p, from the maps and ref the cleanup left
EffectRun(p, ms, ref) ==
    /\ effectRuns' = effectRuns + 1
    /\ IF p.subscriptionKey = ""
       THEN /\ maps' = ms
            /\ mapInstanceRef' = ref
            /\ cleanupPending' = FALSE
       ELSE /\ maps' = Append(ms, [run |-> effectRuns + 1, mapData |-> p.mapData,
                                   disposed |-> FALSE, disposedBy |-> 0,
                                   ready |-> FALSE, hover |-> FALSE])
            /\ mapInstanceRef' = StoreRef(ref, Len(ms) + 1)
            /\ cleanupPending' = TRUE

\* the first render of the view
Mount ==
    /\ ~mounted
    /\ effectRuns = 0
    /\ \E md \in MapDatas, key \in {"", "azure-key"} :
         LET p == [mapData |-> md, subscriptionKey |-> key, clientId |-> Undef]
         IN  props' = p /\ EffectRun(p, maps, mapInstanceRef)
    /\ mounted' = TRUE
    /\ UNCHANGED <<timers, overlay, nativeTiles, hoverTimers, popup, geotiff, connection, pixel>>
    /\ UNCHANGED chatVars

\* a render with a different mapData, subscriptionKey or clientId: the
\* cleanup of the previous run, then the effect again
ChangeProps ==
    /\ mounted
    /\ effectRuns < MaxRuns
    /\ \E p \in { [props EXCEPT !.mapData = md] : md \in NextMapDatas }
                \cup { [props EXCEPT !.subscriptionKey = k] : k \in {"", "azure-key"} }
                \cup { [props EXCEPT !.clientId = Str("client-1")] } :
         /\ p # props
         /\ props' = p
         /\ LET c == CleanedUp(maps, mapInstanceRef, cleanupPending, effectRuns)
            IN  EffectRun(p, c.maps, c.ref)
    /\ UNCHANGED <<mounted, timers, overlay, nativeTiles, hoverTimers, popup, geotiff, connection, pixel>>
    /\ UNCHANGED chatVars

\* the view leaves the page: the cleanup of the last run
Unmount ==
    /\ mounted
    /\ mounted' = FALSE
    /\ LET c == CleanedUp(maps, mapInstanceRef, cleanupPending, effectRuns)
       IN  maps' = c.maps /\ mapInstanceRef' = c.ref
    /\ cleanupPending' = FALSE
    /\ UNCHANGED <<props, effectRuns, timers, overlay, nativeTiles, hoverTimers, popup,
                   geotiff, connection, pixel>>
    /\ UNCHANGED chatVars

\* a live map fires 'ready': the handler starts the 1500 ms timer
Ready ==
    \E i \in 1..Len(maps) :
        /\ ~maps[i].disposed /\ ~maps[i].ready
        /\ maps' = [maps EXCEPT ![i].ready = TRUE]
        /\ timers' = timers \cup {i}
        /\ UNCHANGED <<mounted, props, effectRuns, cleanupPending, mapInstanceRef,
                       overlay, nativeTiles, hoverTimers, popup, geotiff, connection, pixel>>
        /\ UNCHANGED chatVars

\* the timer fires, whether or not its map was disposed meanwhile; on a
\* disposed map the calls into atlas either still go through or throw
OverlayTimer ==
    \E i \in timers, libraryThrows \in BOOLEAN :
        /\ libraryThrows => maps[i].disposed
        /\ timers' = timers \ {i}
        /\ LET done == IF libraryThrows
                       THEN [layers |-> <<>>, camera |-> Undef, hover |-> FALSE]
                       ELSE OverlayProcessing(maps[i].mapData, nativeTiles)
           IN  /\ overlay' = [ran |-> TRUE, map |-> i, disposed |-> maps[i].disposed,
                              done |-> done]
               /\ maps' = [maps EXCEPT ![i].hover = done.hover]
        /\ UNCHANGED <<mounted, props, effectRuns, cleanupPending, mapInstanceRef,
                       nativeTiles, hoverTimers, popup, geotiff, connection, pixel>>
        /\ UNCHANGED chatVars

\* a handler that leaves the pending timer alone
KeepTimeout(pending, i) == pending

\* if (hoverTimeout) clearTimeout(hoverTimeout): the timer hoverTimeout of
\* map i refers to is no longer pending; a timer that has fired is not
\* pending and clearing it does nothing
clearTimeout(pending, i) == pending \ {<<i, "current">>}

\* hoverTimeout = setTimeout(..., 100): a new pending timer, and a timer
\* that is still pending is no longer the one hoverTimeout refers to
setHoverTimeout(pending, i) ==
    {IF t = <<i, "current">> THEN <<i, "superseded">> ELSE t : t \in pending}
        \cup {<<i, "current">>}

\* the pending hover timers of map i
HoverTimersOf(pending, i) == {t \in pending : t[1] = i}

\* the pointer moves over a live map that has the hover handlers: the
\* pending hover timer is cleared and a new one is set
MouseMove ==
    \E i \in 1..Len(maps) :
        /\ ~maps[i].disposed /\ maps[i].hover
        /\ hoverTimers' = setHoverTimeout(clearTimeout(hoverTimers, i), i)
        /\ UNCHANGED <<mounted, props, effectRuns, cleanupPending, maps, mapInstanceRef,
                       timers, overlay, nativeTiles, popup, geotiff, connection, pixel>>
        /\ UNCHANGED chatVars

\* the pointer leaves a live map: the hover timer is cleared and the popup
\* is closed
MouseLeave ==
    \E i \in 1..Len(maps) :
        /\ ~maps[i].disposed /\ maps[i].hover
        /\ HoverTimersOf(hoverTimers, i) # {} \/ popup.opened
        /\ hoverTimers' = clearTimeout(hoverTimers, i)
        /\ popup' = IF popup.opened /\ popup.map # i THEN popup
                    ELSE [opened |-> FALSE, by |-> "mouseleave", map |-> i]
        /\ UNCHANGED <<mounted, props, effectRuns, cleanupPending, maps, mapInstanceRef,
                       timers, overlay, nativeTiles, geotiff, connection, pixel>>
        /\ UNCHANGED chatVars

\* the hover timer fires, whether or not its map was disposed meanwhile:
\* popup.open(map) when a data point is near the pointer, else popup.close()
HoverTimer ==
    \E t \in hoverTimers, near \in BOOLEAN : LET i == t[1] IN
        /\ hoverTimers' = hoverTimers \ {t}
        /\ popup' = IF near
                    THEN [opened |-> TRUE, map |-> i, disposed |-> maps[i].disposed]
                    ELSE IF popup.opened /\ popup.map = i THEN [opened |-> FALSE]
                    ELSE popup
        /\ UNCHANGED <<mounted, props, effectRuns, cleanupPending, maps, mapInstanceRef,
                       timers, overlay, nativeTiles, geotiff, connection, pixel>>
        /\ UNCHANGED chatVars

MapInit ==
    /\ component = "HydrologyDarkChat"
    /\ azureMapsKey = "azure-key"
    /\ query = ""
    /\ loading = FALSE
    /\ error = Null
    /\ messages = <<>>
    /\ debug = Null
    /\ userId = "uuid-a"
    /\ threadId = Null
    /\ initPc = "probing"
    /\ localStorage = [k \in StorageKeys |->
                          IF k = STORAGE_KEY THEN Str("uuid-a") ELSE Str("dark")]
    /\ issued = {"uuid-a"}
    /\ calls = {}
    /\ posts = <<>>
    /\ submits = 0
    /\ invoked = 0
    /\ lastSettle = [kind |-> "none"]
    /\ mounted = FALSE
    /\ props = Undef
    /\ effectRuns = 0
    /\ cleanupPending = FALSE
    /\ maps = <<>>
    /\ mapInstanceRef = 0
    /\ timers = {}
    /\ overlay = [ran |-> FALSE]
    /\ nativeTiles \in {"absent", "works", "throws"}
    /\ hoverTimers = {}
    /\ popup = [opened |-> FALSE]
    /\ geotiff = [pc |-> "not called"]
    /\ connection = [pc |-> "not called"]
    /\ pixel = [pc |-> "not called"]

MapNext ==
    \/ Mount
    \/ ChangeProps
    \/ Unmount
    \/ Ready
    \/ OverlayTimer
    \/ MouseMove
    \/ MouseLeave
    \/ HoverTimer

MapSpec == MapInit /\ [][MapNext]_vars

-----------------------------------------------------------------------------
(* utils/geotiffLoader: one call of loadGeoTiffOverlay *)

\* everything a step of loadGeoTiffOverlay leaves alone
nonGeoVars == <<chatVars, mounted, props, effectRuns, cleanupPending, maps,
                mapInstanceRef, timers, overlay, nativeTiles, hoverTimers, popup,
                connection, pixel>>

\* loadGeoTiffLibraries: the first of the three scripts, from `from` on, that
\* has no <script> tag in the document yet; 4 when every one has
NextScript(from, present) ==
    IF \E i \in from..3 : i \notin present
    THEN CHOOSE i \in from..3 : i \notin present /\ \A j \in from..(i - 1) : j \in present
    ELSE 4

\* what image.getBoundingBox() has returned: nothing, two numbers, a box in
\* degrees, a box with a NaN, and a box in metres of a projected grid
BoundingBoxes ==
    { Undef,
      Arr(<<Num(-8000), Num(3000)>>),
      Arr(<<Num(-8000), Num(3000), Num(-7000), Num(4000)>>),
      Arr(<<Num(-8000), NaN, Num(-7000), Num(4000)>>),
      Arr(<<Num(500000), Num(4000000), Num(600000), Num(4100000)>>) }

\* !bounds || bounds.length !== 4
BoundingBoxMissing(b) == ~Truthy(b) \/ Len(b.a) # 4

\* what projection.inverse returns for the two corners
InverseCorners ==
    { [min |-> <<Num(-8000), Num(3000)>>, max |-> <<Num(-7000), Num(4000)>>],
      [min |-> <<NaN, NaN>>, max |-> <<Num(-7000), Num(4000)>>],
      [min |-> <<Num(-8000), Num(3000)>>, max |-> <<Infinity, Num(4000)>>] }

\* the corners taken from the bounding box as it is
RawCorners(b) == [min |-> <<b.a[1], b.a[2]>>, max |-> <<b.a[3], b.a[4]>>]

\* minXY.every(isFinite) && maxXY.every(isFinite)
CornersFinite(c) ==
    /\ \A i \in 1..Len(c.min) : isFinite(c.min[i])
    /\ \A i \in 1..Len(c.max) : isFinite(c.max[i])

\* a return before the layer is built, or the catch block: the promise
\* resolves to null
ResolveNull(g, why) == [g EXCEPT !.pc = "settled", !.failed = why, !.result = "null"]

\* a <script> that was appended by this call fires onload
ScriptLoaded ==
    /\ geotiff.pc = "libraries"
    /\ NextScript(geotiff.script, geotiff.present) <= 3
    /\ LET i == NextScript(geotiff.script, geotiff.present)
       IN  geotiff' = [geotiff EXCEPT !.script = i + 1, !.loaded = @ \cup {i}]
    /\ UNCHANGED nonGeoVars

\* a <script> that was appended by this call fails to load: only onload is
\* handled, so the promise loadGeoTiffLibraries awaits is never resolved
ScriptFailed ==
    /\ geotiff.pc = "libraries"
    /\ NextScript(geotiff.script, geotiff.present) <= 3
    /\ geotiff' = [geotiff EXCEPT !.pc = "stalled", !.failed = "library"]
    /\ UNCHANGED nonGeoVars

\* a <script> that an earlier call of loadGeoTiffLibraries appended, and
\* that was still loading when this call began, finishes loading
EarlierScriptLoaded ==
    /\ geotiff.pc \notin {"not called", "settled"}
    /\ \E i \in geotiff.waiting :
         geotiff' = [geotiff EXCEPT !.waiting = @ \ {i}]
    /\ UNCHANGED nonGeoVars

\* whether the scripts `need` have defined their globals: they have when
\* this call saw them load, they have not while one of them is still
\* loading, and a tag found in the document may also be one that failed
GlobalsDefined(g, need) ==
    IF need \subseteq g.loaded THEN {TRUE}
    ELSE IF need \cap g.waiting # {} THEN {FALSE}
    ELSE BOOLEAN

\* loadGeoTiffLibraries has returned: window.GeoTIFF is read and the fetch
\* is started.  A script this call saw load has defined its global; one
\* whose tag was already in the document may not have run yet.
LibrariesLoaded ==
    /\ geotiff.pc = "libraries"
    /\ NextScript(geotiff.script, geotiff.present) = 4
    /\ \E GeoTIFF \in GlobalsDefined(geotiff, {1}),
          proj \in GlobalsDefined(geotiff, {2, 3}) :
         geotiff' = IF ~GeoTIFF THEN ResolveNull(geotiff, "library")
                    ELSE [geotiff EXCEPT !.pc = "fetch", !.proj = proj]
    /\ UNCHANGED nonGeoVars

\* fetch(geotiffUrl) rejects: the catch block
GeoFetchRejects ==
    /\ geotiff.pc = "fetch"
    /\ geotiff' = ResolveNull(geotiff, "threw")
    /\ UNCHANGED nonGeoVars

\* fetch(geotiffUrl) resolves
GeoFetchResponds ==
    /\ geotiff.pc = "fetch"
    /\ \E ok \in BOOLEAN :
         geotiff' = IF ~ok THEN ResolveNull(geotiff, "fetch")
                    ELSE [geotiff EXCEPT !.pc = "body"]
    /\ UNCHANGED nonGeoVars

\* arrayBuffer, GeoTIFF.fromArrayBuffer and getImage: one of them throws, or
\* the image is there and its bounding box is read
ReadImage ==
    /\ geotiff.pc = "body"
    /\ \E throws \in BOOLEAN, b \in BoundingBoxes, samples \in {1, 3} :
         geotiff' = IF throws THEN ResolveNull(geotiff, "threw")
                    ELSE IF BoundingBoxMissing(b) THEN ResolveNull(geotiff, "bbox")
                    ELSE [geotiff EXCEPT !.pc = "project", !.bounds = b,
                                         !.samplesPerPixel = samples]
    /\ UNCHANGED nonGeoVars

\* the corners in WGS84: projected when proj4 and geokeysToProj4 are there
\* and do not throw, else the bounding box as it is; then the finiteness test
Project ==
    /\ geotiff.pc = "project"
    /\ \E c \in (IF geotiff.proj THEN InverseCorners ELSE {}) \cup {RawCorners(geotiff.bounds)} :
         geotiff' = IF ~CornersFinite(c) THEN ResolveNull(geotiff, "corners")
                    ELSE [geotiff EXCEPT !.pc = "render", !.corners = c]
    /\ UNCHANGED nonGeoVars

\* readRGB or readRasters and the canvas: they throw, or the PNG is there
Render ==
    /\ geotiff.pc = "render"
    /\ \E throws \in BOOLEAN :
         geotiff' = IF throws THEN ResolveNull(geotiff, "threw")
                    ELSE [geotiff EXCEPT !.pc = "add"]
    /\ UNCHANGED nonGeoVars

\* map.layers.add(imageLayer, 'labels'), then map.layers.add(imageLayer) when
\* the first throws; when both throw the catch block is reached
AddImageLayer ==
    /\ geotiff.pc = "add"
    /\ \E outcome \in {"below labels", "on top", "throws"} :
         geotiff' = IF outcome = "throws" THEN ResolveNull(geotiff, "threw")
                    ELSE [geotiff EXCEPT !.pc = "camera", !.layerAdded = TRUE]
    /\ UNCHANGED nonGeoVars

\* map.setCamera and the return of the layer
SetCamera ==
    /\ geotiff.pc = "camera"
    /\ \E throws \in BOOLEAN :
         geotiff' = IF throws THEN ResolveNull(geotiff, "threw")
                    ELSE [geotiff EXCEPT !.pc = "settled", !.camera = TRUE,
                                         !.result = "layer"]
    /\ UNCHANGED nonGeoVars

\* loadGeoTiffOverlay has just been called; any of the three script tags may
\* already be in the document, and a tag that an earlier call appended may
\* still be loading
GeoInit ==
    /\ component = "HydrologyDarkChat"
    /\ azureMapsKey = "azure-key"
    /\ query = ""
    /\ loading = FALSE
    /\ error = Null
    /\ messages = <<>>
    /\ debug = Null
    /\ userId = "uuid-a"
    /\ threadId = Null
    /\ initPc = "probing"
    /\ localStorage = [k \in StorageKeys |->
                          IF k = STORAGE_KEY THEN Str("uuid-a") ELSE Str("dark")]
    /\ issued = {"uuid-a"}
    /\ calls = {}
    /\ posts = <<>>
    /\ submits = 0
    /\ invoked = 0
    /\ lastSettle = [kind |-> "none"]
    /\ mounted = FALSE
    /\ props = Undef
    /\ effectRuns = 0
    /\ cleanupPending = FALSE
    /\ maps = <<>>
    /\ mapInstanceRef = 0
    /\ timers = {}
    /\ overlay = [ran |-> FALSE]
    /\ nativeTiles = "absent"
    /\ hoverTimers = {}
    /\ popup = [opened |-> FALSE]
    /\ connection = [pc |-> "not called"]
    /\ pixel = [pc |-> "not called"]
    /\ \E present \in SUBSET (1..3) : \E waiting \in SUBSET present :
         geotiff = [pc |-> "libraries", script |-> 1, present |-> present,
                    waiting |-> waiting, loaded |-> {}, proj |-> FALSE, bounds |-> Undef,
                    samplesPerPixel |-> 0, corners |-> Undef, layerAdded |-> FALSE,
                    camera |-> FALSE, failed |-> "none", result |-> "pending"]

GeoNext ==
    \/ EarlierScriptLoaded
    \/ ScriptLoaded
    \/ ScriptFailed
    \/ LibrariesLoaded
    \/ GeoFetchRejects
    \/ GeoFetchResponds
    \/ ReadImage
    \/ Project
    \/ Render
    \/ AddImageLayer
    \/ SetCamera

\* every step that can be taken is taken in the end: the browser settles
\* each script load and each fetch, and the continuations of the awaits run
GeoSpec == GeoInit /\ [][GeoNext]_vars /\ WF_vars(GeoNext)

-----------------------------------------------------------------------------
(* services/multiAgent: one call of testFastAPIConnection *)

\* everything a step of testFastAPIConnection leaves alone
nonProbeVars == <<chatVars, mounted, props, effectRuns, cleanupPending, maps,
                  mapInstanceRef, timers, overlay, nativeTiles, hoverTimers, popup,
                  geotiff, pixel>>

\* the four tryFetch calls, in the order of the code
Probes ==
    << [method |-> "GET", path |-> "/api/health"],
       [method |-> "GET", path |-> "/docs"],
       [method |-> "OPTIONS", path |-> "/api/chat"],
       [method |-> "HEAD", path |-> "/"] >>

\* the statuses a probe is answered with
ProbeStatuses == {200, 204, 404, 405, 500}

\* a check that takes only res.ok
ResOk(path, status) == status \in 200..299

\* res.ok || (path === '/api/chat' && res.status === 405)
ProbeOk(path, status) ==
    (status \in 200..299) \/ (path = "/api/chat" /\ status = 405)

\* tryFetch: what it returns for the way the fetch ended; the catch block
\* turns a rejected fetch into false
tryFetch(path, outcome) ==
    IF outcome.kind = "rejected" THEN FALSE ELSE ProbeOk(path, outcome.status)

\* the awaited tryFetch has returned `ok`: return true, start the next
\* probe, or return false after the last one
AfterProbe(c, outcome, ok) ==
    LET k == Len(c.requests)
        seen == Append(c.outcomes, outcome)
    IN  IF ok THEN [c EXCEPT !.pc = "returned", !.outcomes = seen, !.result = "true"]
        ELSE IF k < Len(Probes)
             THEN [c EXCEPT !.requests = Append(@, Probes[k + 1]), !.outcomes = seen]
             ELSE [c EXCEPT !.pc = "returned", !.outcomes = seen, !.result = "false"]

\* the fetch of the probe in flight rejects
ProbeRejects ==
    /\ connection.pc = "probing"
    /\ LET outcome == [kind |-> "rejected"]
           path == connection.requests[Len(connection.requests)].path
       IN  connection' = AfterProbe(connection, outcome, tryFetch(path, outcome))
    /\ UNCHANGED nonProbeVars

\* the fetch of the probe in flight is answered
ProbeResponds ==
    /\ connection.pc = "probing"
    /\ \E status \in ProbeStatuses :
         LET outcome == [kind |-> "responded", status |-> status]
             path == connection.requests[Len(connection.requests)].path
         IN  connection' = AfterProbe(connection, outcome, tryFetch(path, outcome))
    /\ UNCHANGED nonProbeVars

\* testFastAPIConnection has just been called and the first fetch is out
ProbeInit ==
    /\ component = "HydrologyDarkChat"
    /\ azureMapsKey = "azure-key"
    /\ query = ""
    /\ loading = FALSE
    /\ error = Null
    /\ messages = <<>>
    /\ debug = Null
    /\ userId = "uuid-a"
    /\ threadId = Null
    /\ initPc = "probing"
    /\ localStorage = [k \in StorageKeys |->
                          IF k = STORAGE_KEY THEN Str("uuid-a") ELSE Str("dark")]
    /\ issued = {"uuid-a"}
    /\ calls = {}
    /\ posts = <<>>
    /\ submits = 0
    /\ invoked = 0
    /\ lastSettle = [kind |-> "none"]
    /\ mounted = FALSE
    /\ props = Undef
    /\ effectRuns = 0
    /\ cleanupPending = FALSE
    /\ maps = <<>>
    /\ mapInstanceRef = 0
    /\ timers = {}
    /\ overlay = [ran |-> FALSE]
    /\ nativeTiles = "absent"
    /\ hoverTimers = {}
    /\ popup = [opened |-> FALSE]
    /\ geotiff = [pc |-> "not called"]
    /\ pixel = [pc |-> "not called"]
    /\ connection = [pc |-> "probing", requests |-> <<Probes[1]>>,
                     outcomes |-> <<>>, result |-> "pending"]

ProbeNext ==
    \/ ProbeRejects
    \/ ProbeResponds

ProbeSpec == ProbeInit /\ [][ProbeNext]_vars

-----------------------------------------------------------------------------
(* utils/geotiffLoader: one call of getVariableColor *)

\* everything a step of getVariableColor leaves alone
nonPixelVars == <<chatVars, mounted, props, effectRuns, cleanupPending, maps,
                  mapInstanceRef, timers, overlay, nativeTiles, hoverTimers, popup,
                  geotiff, connection>>

\* a colour: three channels, each a number of the language
Rgb(r, g, b) == <<Num(r), Num(g), Num(b)>>

\* hexToRgb: the six-digit colours of the model parse to their channels,
\* everything else (three digits, a colour name, undefined) to gray
hexToRgb(hex) ==
    CASE hex = "#0000ff" -> Rgb(0, 0, 255)
      [] hex = "#ffffff" -> Rgb(255, 255, 255)
      [] hex = "#FF0000" -> Rgb(255, 0, 0)
      [] hex = "00ff00" -> Rgb(0, 255, 0)
      [] OTHER -> Rgb(128, 128, 128)

\* Math.round(num / den) for den > 0: the nearest integer, a half rounds up
MathRound(num, den) == (2 * num + den) \div (2 * den)

\* Math.max(0, Math.min(1, num / den)) as the numerator over den
Normalized(num, den) == IF num < 0 THEN 0 ELSE IF num > den THEN den ELSE num

\* interpolateColormap: the first segment that holds the value, else the
\* nearest end.  A segment of width 0 makes the ratio 0 / 0.
interpolateColormap(value, colors, values) ==
    IF Len(values) # Len(colors) THEN Rgb(128, 128, 128)
    ELSE LET held == {i \in 1..(Len(values) - 1) :
                         value >= values[i] /\ value <= values[i + 1]}
         IN  IF held # {}
             THEN LET i == CHOOSE j \in held : \A k \in held : j <= k
                      width == values[i + 1] - values[i]
                      color1 == hexToRgb(colors[i])
                      color2 == hexToRgb(colors[i + 1])
                  IN  IF width = 0 THEN <<NaN, NaN, NaN>>
                      ELSE [ch \in 1..3 |->
                              Num(MathRound(color1[ch].n * width
                                              + (color2[ch].n - color1[ch].n)
                                                  * (value - values[i]),
                                            width))]
             ELSE IF Len(values) = 0 THEN hexToRgb("undefined")
             ELSE IF value < values[1] THEN hexToRgb(colors[1])
             ELSE hexToRgb(colors[Len(colors)])

\* the variable names of the model
Variables == {"SPI3", "Tair", "Rainf", "PSurf", "Wind_E", "Qair", "SWdown",
              "SoilMoi_0_10cm", "elevation"}

\* detectVariableType: what the tests on the lower-cased name give
detectVariableType(variable) ==
    CASE variable = "SPI3" -> "spi"
      [] variable = "Tair" -> "temperature"
      [] variable = "Rainf" -> "precipitation"
      [] variable = "PSurf" -> "pressure"
      [] variable = "Wind_E" -> "wind"
      [] variable = "Qair" -> "humidity"
      [] variable = "SWdown" -> "radiation"
      [] variable = "SoilMoi_0_10cm" -> "soil"
      [] OTHER -> "generic"

getSPIColor(v) ==
    IF 2 * v <= -4 THEN Rgb(139, 0, 0)
    ELSE IF 2 * v <= -3 THEN Rgb(255, 0, 0)
    ELSE IF 2 * v <= -2 THEN Rgb(255, 140, 0)
    ELSE IF 2 * v <= -1 THEN Rgb(255, 255, 0)
    ELSE IF 2 * v <= 1 THEN Rgb(144, 238, 144)
    ELSE IF 2 * v <= 2 THEN Rgb(0, 191, 255)
    ELSE IF 2 * v <= 3 THEN Rgb(0, 0, 255)
    ELSE Rgb(0, 0, 139)

\* Math.round(128 * Math.sin(normalized * Math.PI)) with normalized = n / 90,
\* that is the sine of 2n degrees, for the temperatures of the model
RoundedSine(n) ==
    CASE n \in {0, 90} -> 0
      [] n \in {35, 55} -> 120
      [] n \in {40, 50} -> 126
      [] n \in {45, 47} -> 128

getTemperatureColor(v) ==
    LET n == Normalized(v + 40, 90)
    IN  Rgb(MathRound(255 * n, 90), RoundedSine(n), MathRound(255 * (90 - n), 90))

getPrecipitationColor(v) ==
    LET n == Normalized(v, 100)
    IN  Rgb(MathRound(255 * (100 - n), 100), MathRound(255 * (200 - n), 200), 255)

getPressureColor(v) ==
    LET n == Normalized(v - 980, 60)
    IN  Rgb(MathRound(128 * 60 + 127 * n, 60), MathRound(255 * n, 60),
            MathRound(128 * (60 - n), 60))

getWindColor(v) ==
    LET n == Normalized(v, 50)
    IN  Rgb(MathRound(255 * n, 50), MathRound(255 * (50 - n), 50), 0)

getHumidityColor(v) ==
    LET n == Normalized(v, 1)
    IN  Rgb(MathRound(139 * (1 - n), 1), MathRound(69 + 186 * n, 1),
            MathRound(19 + 236 * n, 1))

getRadiationColor(v) ==
    LET n == Normalized(v, 1000)
    IN  Rgb(MathRound(255 * n, 1000), MathRound(255 * n, 1000), MathRound(100 * n, 1000))

getSoilColor(v) ==
    LET n == Normalized(v, 1)
    IN  Rgb(MathRound(255 - 100 * n, 1), MathRound(255 - 155 * n, 1),
            MathRound(139 * n, 1))

getGenericColor(v) ==
    LET base == MathRound(255 * Normalized(v + 2, 4), 4)
    IN  Rgb(base, base, IF base > 100 THEN base ELSE 100)

\* getVariableColor: white for no data, the backend colormap when it has
\* colors and values, else the scheme of the variable
getVariableColor(value, variable, colormap) ==
    IF value \in {NaN, Null, Undef} THEN Rgb(255, 255, 255)
    ELSE IF /\ Truthy(colormap)
            /\ Truthy(Get(colormap, "colors"))
            /\ Truthy(Get(colormap, "values"))
         THEN interpolateColormap(value.n, colormap.colors.a, colormap.values.a)
         ELSE LET variableType == detectVariableType(variable)
              IN  CASE variableType = "spi" -> getSPIColor(value.n)
                    [] variableType = "temperature" -> getTemperatureColor(value.n)
                    [] variableType = "precipitation" -> getPrecipitationColor(value.n)
                    [] variableType = "pressure" -> getPressureColor(value.n)
                    [] variableType = "wind" -> getWindColor(value.n)
                    [] variableType = "humidity" -> getHumidityColor(value.n)
                    [] variableType = "radiation" -> getRadiationColor(value.n)
                    [] variableType = "soil" -> getSoilColor(value.n)
                    [] OTHER -> getGenericColor(value.n)

\* the values of a raster cell: no data, below, on and between the stops of
\* the colormaps, and above them
PixelValues == {NaN, Num(-5), Num(0), Num(5), Num(7), Num(10), Num(15)}

Colormap(colors, values) == [colors |-> colors, values |-> values]

\* the colormaps of the backend: none, one without values, two and three
\* stops, one stop, no stop, lists of different lengths, a colour that is
\* not six hex digits, and stepped ones with a stop that is repeated
Colormaps ==
    { Undef,
      Colormap(Arr(<<"#0000ff", "#FF0000">>), Undef),
      Colormap(Arr(<<"#0000ff", "#FF0000">>), Arr(<<0, 10>>)),
      Colormap(Arr(<<"#0000ff", "#ffffff", "#FF0000">>), Arr(<<0, 5, 10>>)),
      Colormap(Arr(<<"00ff00">>), Arr(<<5>>)),
      Colormap(Arr(<<>>), Arr(<<>>)),
      Colormap(Arr(<<"#0000ff", "#FF0000">>), Arr(<<0, 5, 10>>)),
      Colormap(Arr(<<"#00f", "#FF0000">>), Arr(<<0, 10>>)),
      Colormap(Arr(<<"#0000ff", "#ffffff", "#FF0000">>), Arr(<<0, 0, 10>>)),
      Colormap(Arr(<<"#0000ff", "#ffffff", "#FF0000", "00ff00">>), Arr(<<0, 5, 5, 10>>)) }

\* the call of getVariableColor for one raster cell
GetVariableColor ==
    /\ pixel.pc = "called"
    /\ pixel' = [pixel EXCEPT !.pc = "returned",
                              !.rgb = getVariableColor(pixel.value, pixel.variable,
                                                       pixel.colormap)]
    /\ UNCHANGED nonPixelVars

\* getVariableColor is about to be called for a raster cell
PixelInit ==
    /\ component = "HydrologyDarkChat"
    /\ azureMapsKey = "azure-key"
    /\ query = ""
    /\ loading = FALSE
    /\ error = Null
    /\ messages = <<>>
    /\ debug = Null
    /\ userId = "uuid-a"
    /\ threadId = Null
    /\ initPc = "probing"
    /\ localStorage = [k \in StorageKeys |->
                          IF k = STORAGE_KEY THEN Str("uuid-a") ELSE Str("dark")]
    /\ issued = {"uuid-a"}
    /\ calls = {}
    /\ posts = <<>>
    /\ submits = 0
    /\ invoked = 0
    /\ lastSettle = [kind |-> "none"]
    /\ mounted = FALSE
    /\ props = Undef
    /\ effectRuns = 0
    /\ cleanupPending = FALSE
    /\ maps = <<>>
    /\ mapInstanceRef = 0
    /\ timers = {}
    /\ overlay = [ran |-> FALSE]
    /\ nativeTiles = "absent"
    /\ hoverTimers = {}
    /\ popup = [opened |-> FALSE]
    /\ geotiff = [pc |-> "not called"]
    /\ connection = [pc |-> "not called"]
    /\ \E value \in PixelValues, variable \in Variables, colormap \in Colormaps :
         pixel = [pc |-> "called", value |-> value, variable |-> variable,
                  colormap |-> colormap, rgb |-> <<>>]

PixelNext == GetVariableColor

PixelSpec == PixelInit /\ [][PixelNext]_vars

-----------------------------------------------------------------------------
(* Properties of a conversation *)

\* C1: whenever callMultiAgentFunction rejects (network error, non-2xx status,
\* body that is not JSON, or a body whose transformation throws), handleSubmit appends exactly
\* one assistant message that starts with "Request failed", without imageUrl
\* and without mapData, at the end of the list, and sets the error banner to
\* a "Connection failed" text.
C1_RequestFailedBubble ==
    [][(lastSettle' # lastSettle /\ lastSettle'.kind = "rejected") =>
          /\ Len(messages') = Len(messages) + 1
          /\ SubSeq(messages', 1, Len(messages)) = messages
          /\ LET m == messages'[Len(messages')]
             IN  /\ m.role = "assistant"
                 /\ m.text[1] = "Request failed: "
                 /\ m.imageUrl = Undef
                 /\ m.mapData = Undef
          /\ error' # Null
          /\ error'[1] = "Connection failed: "]_vars

\* a rejected call has left its bubble right after the user's message
C1_Witness ==
    /\ lastSettle.kind = "rejected"
    /\ Len(messages) = 2
    /\ messages[1].role = "user"
    /\ messages[2].text[1] = "Request failed: "
    /\ error # Null

\* C2: every POST to the chat endpoint has a body with query, user_id and
\* thread_id, and thread_id is the thread id the chat component holds when
\* the request is sent.
C2_BodyCarriesThreadId ==
    [][Len(posts') > Len(posts) =>
          LET body == posts'[Len(posts')].body
          IN  /\ {"query", "user_id", "thread_id"} \subseteq DOMAIN body
              /\ body.thread_id = threadId]_vars

\* C6: every handleSubmit with a non-blank query makes exactly one call of
\* callMultiAgentFunction and at most one POST, and a POST is sent only in
\* the step of a submit: nothing is sent again after a call has failed.
C6_OneRequestPerSubmit ==
    /\ [](invoked = submits /\ Len(posts) <= invoked)
    /\ [][Len(posts') # Len(posts) =>
             /\ submits' = submits + 1
             /\ Len(posts') = Len(posts) + 1]_vars

\* a call has failed, everything has settled and one POST was sent
C6_Witness ==
    /\ lastSettle.kind = "rejected"
    /\ calls = {}
    /\ ~loading
    /\ submits = 1
    /\ Len(posts) = 1

\* C7: between two clearUserId calls getStableUserId returns one identifier,
\* the one stored under hydrology_copilot_user_id; that key is written only
\* when it is absent, and no other key is written.
C7_StableUserId ==
    /\ [](/\ Cardinality(issued) <= 1
          /\ \A id \in issued : localStorage[STORAGE_KEY] = Str(id))
    /\ [][/\ \A k \in StorageKeys \ {STORAGE_KEY} : localStorage'[k] = localStorage[k]
          /\ (localStorage'[STORAGE_KEY] \notin {Undef, localStorage[STORAGE_KEY]}
                => localStorage[STORAGE_KEY] = Undef)]_vars

\* getStableUserId was called by the mount effect and by a request, and both
\* got the identifier that was generated when the key was absent
C7_Witness ==
    /\ initPc # "start"
    /\ invoked >= 1
    /\ issued = {"uuid-b"}
    /\ localStorage[STORAGE_KEY] = Str("uuid-b")

-----------------------------------------------------------------------------
(* Properties of one response *)

\* the assistant message of the settled call
Answer == messages[Len(messages)]

\* C3: for every non-error response with use_tiles false and a non-empty
\* static_url, the message handleSubmit builds makes the chat view render
\* the static image at that static_url.
C3_StaticImageRenders ==
    (/\ lastSettle.kind = "resolved"
     /\ ~HasError(lastSettle.response)
     /\ ~Truthy(lastSettle.data.use_tiles)
     /\ Truthy(lastSettle.data.static_url))
        => StaticImageSrc(component, azureMapsKey, Answer) = lastSettle.data.static_url

\* C8: in every response object callMultiAgentFunction returns, use_tiles is
\* a boolean that is true only with a tile_config that has a truthy
\* tile_url, and a use_tiles the backend set without a tile_url comes back
\* false.
C8_TilesNeedTileUrl ==
    lastSettle.kind = "resolved" =>
        LET d == lastSettle.data
            r == lastSettle.response
        IN  /\ r.use_tiles \in {Bool(TRUE), Bool(FALSE)}
            /\ r.use_tiles = Bool(TRUE) =>
                   Truthy(r.tile_config) /\ Truthy(Get(r.tile_config, "tile_url"))
            /\ (Truthy(d.use_tiles) /\ ~Truthy(Get(d.tile_config, "tile_url"))) =>
                   r.use_tiles = Bool(FALSE)

\* the backend asked for tiles with a tile_config that has no tile_url, and
\* the response came back with tiles switched off
C8_Witness ==
    /\ lastSettle.kind = "resolved"
    /\ lastSettle.data.use_tiles = Bool(TRUE)
    /\ lastSettle.data.tile_config = [tile_list |-> Arr(<<GoodTile>>)]
    /\ lastSettle.response.use_tiles = Bool(FALSE)

\* C9: each of static_url, overlay_url, geotiff_url, geojson, bounds and
\* tile_config (its tile_url and tile_list) that the backend JSON has is in
\* the response object callMultiAgentFunction returns, with the same value.
C9_EnvelopePassedThrough ==
    lastSettle.kind = "resolved" =>
        LET d == lastSettle.data
            r == lastSettle.response
        IN  /\ \A k \in {"static_url", "overlay_url", "geotiff_url", "geojson", "bounds"} :
                   d[k] # Undef => (k \in DOMAIN r /\ r[k] = d[k])
            /\ d.tile_config # Undef =>
                   /\ Get(r.tile_config, "tile_url") = Get(d.tile_config, "tile_url")
                   /\ Get(r.tile_config, "tile_list") = Get(d.tile_config, "tile_list")

\* C10: the bounds of every mapData handleSubmit builds are four finite
\* numbers.
C10_BoundsFiniteNumbers ==
    (lastSettle.kind = "resolved" /\ Truthy(Answer.mapData)) =>
        \A k \in {"north", "south", "east", "west"} :
            IsFiniteNumber(Answer.mapData.bounds[k])

-----------------------------------------------------------------------------
(* Properties of the map view *)

\* the functions that added layers in the most recent overlay processing
Strategies == {overlay.done.layers[i].by : i \in 1..Len(overlay.done.layers)}

\* C4: one run of the overlay processing adds layers through at most one
\* strategy: never through renderWithTiles and loadBackendTiles both, nor
\* through a tile path and addPngOverlay both.
C4_OneOverlayStrategy ==
    overlay.ran => Cardinality(Strategies) <= 1

\* the maps that have not been disposed
LiveMaps == {i \in 1..Len(maps) : ~maps[i].disposed}

\* C5: every atlas.Map is disposed by the cleanup of the effect run that
\* created it, a mounted view holds at most one undisposed map and an
\* unmounted one holds none.
C5_MapsDisposed ==
    /\ Cardinality(LiveMaps) <= (IF mounted THEN 1 ELSE 0)
    /\ \A i \in 1..Len(maps) :
          maps[i].disposed => maps[i].disposedBy = maps[i].run
    /\ mounted => LiveMaps \subseteq {mapInstanceRef}

\* two maps were created, the first was disposed when the props changed and
\* the second when the view was unmounted
C5_Witness ==
    /\ ~mounted
    /\ Len(maps) = 2
    /\ maps[1].disposed /\ maps[1].disposedBy = 1
    /\ maps[2].disposed /\ maps[2].disposedBy = 2

\* the mapData of the most recent overlay processing
Processed == maps[overlay.map].mapData

\* the layers addPngOverlay added in the most recent overlay processing
PngLayers == SelectSeq(overlay.done.layers, LAMBDA l : l.by = "addPngOverlay")

\* C11: addPngOverlay adds an image layer and moves the camera only if the
\* chosen image URL (overlay_url, else static_url) starts with 'http' and the
\* chosen bounds are four finite numbers with north > south and west < east;
\* for any other URL or bounds it adds no layer and leaves the camera alone.
C11_PngOverlayValidated ==
    (overlay.ran /\ (PngLayers # <<>> \/ overlay.done.camera # Undef)) =>
        LET az == Processed.azureData
            imageUrl == Or(az.overlay_url, az.static_url)
            ob == Or(Or(az.bounds, Processed.bounds), DefaultBounds)
        IN  /\ Truthy(imageUrl) /\ StartsWithHttp(imageUrl)
            /\ \A k \in {"north", "south", "east", "west"} : IsFiniteNumber(Get(ob, k))
            /\ ob.north.n > ob.south.n
            /\ ob.west.n < ob.east.n

-----------------------------------------------------------------------------
(* Properties of loadGeoTiffOverlay *)

\* C12: loadGeoTiffOverlay never rejects; when the GeoTIFF library is
\* unavailable, the fetch is not ok, the bounding box is missing or not of
\* length 4, the projected corners are not finite, or a step throws, it
\* resolves to null; and it resolves to an ImageLayer only after that layer
\* has been added to the map.
C12_GeoTiffResolves ==
    /\ [](geotiff.result \in {"pending", "null", "layer"})
    /\ [](geotiff.result = "layer" => geotiff.layerAdded)
    /\ []((geotiff.pc = "settled" /\ geotiff.failed # "none") => geotiff.result = "null")
    /\ (geotiff.failed # "none") ~> (geotiff.result = "null")

-----------------------------------------------------------------------------
(* Properties of a conversation, continued *)

\* C13: after handleNewConversation the chat state holds nothing of the
\* previous conversation: a response to a query submitted before New Chat
\* that arrives after it neither appends a message to the cleared list nor
\* sets threadId to a non-null value.  (A call is in flight with an empty
\* message list only when New Chat was clicked after the submit, and no new
\* submit is possible before the call settles; the step looked at is the one
\* in which that call resolves.)
C13_NewChatDropsLateResponse ==
    [][(/\ calls # {} /\ messages = <<>>
        /\ lastSettle' # lastSettle /\ lastSettle'.kind = "resolved")
          => (messages' = <<>> /\ threadId' = Null)]_vars

-----------------------------------------------------------------------------
(* Properties of the map view, continued *)

\* C14: no callback of AzureMapView acts on a map that the effect cleanup
\* has disposed: the 1500 ms overlay timer adds no layer, moves no camera and
\* registers no hover handler on it, and a hover timer opens no popup on it.
C14_NoCallbackAfterDispose ==
    /\ (overlay.ran /\ overlay.disposed) =>
           /\ overlay.done.layers = <<>>
           /\ overlay.done.camera = Undef
           /\ ~overlay.done.hover
    /\ popup.opened => ~popup.disposed

-----------------------------------------------------------------------------
(* Properties of submitting *)

\* C15: at most one chat request is in flight at any time: while loading is
\* true the query is empty and the input and the Send button are disabled,
\* a request in flight keeps loading true, and handleSubmit starts a
\* request only when none is in flight.
C15_OneRequestInFlight ==
    /\ [](/\ Cardinality(calls) <= 1
          /\ calls # {} => loading
          /\ loading => /\ query = ""
                        /\ InputDisabled(loading)
                        /\ SendDisabled(component, loading, query))
    /\ [][submits' # submits => (calls = {} /\ ~loading)]_vars

\* the second request of a conversation is in flight, after the first one
\* has settled
C15_Witness ==
    /\ submits = 2
    /\ Cardinality(calls) = 1
    /\ lastSettle.kind # "none"
    /\ loading
    /\ query = ""

\* C16: loading is true from the step in which handleSubmit starts a request
\* until that request settles, and it is false after every completed
\* handleSubmit, whether the call succeeded, returned an error status or
\* threw: the step that settles the call is the step that sets loading false.
C16_LoadingFollowsRequest ==
    /\ [](loading <=> calls # {})
    /\ [][submits' # submits => loading']_vars
    /\ [][lastSettle' # lastSettle => (~loading' /\ calls' = {})]_vars

\* a call has come back with an error status and loading is false again
C16_Witness ==
    /\ lastSettle.kind = "resolved"
    /\ lastSettle.data.status = Str("error")
    /\ submits = 1
    /\ calls = {}
    /\ ~loading

-----------------------------------------------------------------------------
(* Properties of the message list *)

\* C17: the message list changes only by an append at its end or by being
\* cleared by New Chat; handleSubmit with a non-blank query appends the
\* user's message, and the step that settles its call appends exactly one
\* assistant message; neighbours in the list never have the same role, and
\* as long as New Chat has not been clicked (userId is still set) a
\* non-empty list starts with a user message.
C17_MessagesAlternate ==
    /\ [][messages' # messages =>
             \/ /\ messages' = <<>>
                /\ threadId' = Null /\ userId' = ""
                /\ submits' = submits /\ lastSettle' = lastSettle
             \/ /\ Len(messages') = Len(messages) + 1
                /\ SubSeq(messages', 1, Len(messages)) = messages
                /\ (submits' # submits \/ lastSettle' # lastSettle)]_vars
    /\ [][submits' # submits =>
             /\ Len(messages') = Len(messages) + 1
             /\ messages'[Len(messages')] = UserMessage(query)]_vars
    /\ [][lastSettle' # lastSettle =>
             /\ Len(messages') = Len(messages) + 1
             /\ messages'[Len(messages')].role = "assistant"]_vars
    /\ [](\A i \in 2..Len(messages) : messages[i].role # messages[i - 1].role)
    /\ []((userId # "" /\ messages # <<>>) => messages[1].role = "user")

\* two submits have been answered with no New Chat in between
C17_Witness ==
    /\ userId # ""
    /\ Len(messages) = 4
    /\ messages[1].role = "user" /\ messages[2].role = "assistant"
    /\ messages[3].role = "user" /\ messages[4].role = "assistant"

-----------------------------------------------------------------------------
(* Properties of one response, continued *)

\* C18: for every backend response that makes handleSubmit build mapData,
\* also one whose bounds lack members or have members that are not finite,
\* mapData.center is a pair of finite numbers (lat, lng).
C18_CenterFiniteNumbers ==
    (lastSettle.kind = "resolved" /\ Truthy(Answer.mapData)) =>
        /\ IsFiniteNumber(Answer.mapData.center.lat)
        /\ IsFiniteNumber(Answer.mapData.center.lng)

\* C19: when the backend response has status 'error' or analysis_data.status
\* 'error', handleSubmit of HydrologyDarkChat appends exactly one assistant
\* message, whose text starts with the warning sign and 'Error:' and which
\* has no imageUrl and no mapData, whatever static_url, overlay_url or
\* geojson the response carries.
C19_ErrorResponseOnlyReports ==
    (/\ lastSettle.kind = "resolved"
     /\ component = "HydrologyDarkChat"
     /\ \/ lastSettle.data.status = Str("error")
        \/ Get(lastSettle.data.analysis_data, "status") = Str("error"))
        => /\ Len(messages) = 2
           /\ messages[1].role = "user"
           /\ Answer.role = "assistant"
           /\ Answer.text[1] = "(warning sign) Error: "
           /\ Answer.imageUrl = Undef
           /\ Answer.mapData = Undef

\* an error response that carries a static_url and an overlay_url has been
\* reported as an error
C19_Witness ==
    /\ lastSettle.kind = "resolved"
    /\ component = "HydrologyDarkChat"
    /\ lastSettle.data.status = Str("error")
    /\ lastSettle.data.static_url = Str(STATIC_URL)
    /\ lastSettle.data.overlay_url = Str(OVERLAY_URL)
    /\ Answer.text[1] = "(warning sign) Error: "
    /\ Answer.mapData = Undef

-----------------------------------------------------------------------------
(* Properties of the tile path *)

\* the layers loadBackendTiles added in the most recent overlay processing
TileLayers == SelectSeq(overlay.done.layers, LAMBDA l : l.by = "loadBackendTiles")

\* C20: AzureMapView adds image layers from tile_config.tile_list only if
\* use_tiles is exactly true, tile_config.tile_url is set, tile_list is a
\* non-empty array whose every entry has a string url starting with 'http',
\* a bounds object and numeric z, x and y, and the url of the first entry
\* contains its z, x and y; and then it adds at most one image layer per
\* entry of the list.
C20_TileListValidated ==
    (overlay.ran /\ TileLayers # <<>>) =>
        LET az == Processed.azureData
            tc == Get(az, "tile_config")
            tl == Get(tc, "tile_list")
        IN  /\ Get(az, "use_tiles") = Bool(TRUE)
            /\ Truthy(Get(tc, "tile_url"))
            /\ "t" \in DOMAIN tl /\ tl.t = "array" /\ Len(tl.a) > 0
            /\ \A i \in 1..Len(tl.a) :
                   /\ TypeOf(Get(tl.a[i], "url")) = "string"
                   /\ StartsWithHttp(tl.a[i].url)
                   /\ Truthy(Get(tl.a[i], "bounds"))
                   /\ \A k \in {"z", "x", "y"} : TypeOf(Get(tl.a[i], k)) = "number"
            /\ \A k \in {"z", "x", "y"} : UrlIncludes(tl.a[1].url, tl.a[1][k])
            /\ Len(TileLayers) <= Len(tl.a)
            /\ \A i \in 1..Len(TileLayers) : TileLayers[i].kind = "ImageLayer"

\* a list of two valid tiles has been loaded onto a live map, one image
\* layer for each
C20_Witness ==
    /\ overlay.ran
    /\ ~overlay.disposed
    /\ Get(Get(Processed.azureData, "tile_config"), "tile_list")
          = Arr(<<GoodTile, NextTile>>)
    /\ Len(TileLayers) = 2

-----------------------------------------------------------------------------
(* Properties of loadGeoTiffLibraries and of the result of loadGeoTiffOverlay *)

\* C21: when a call of loadGeoTiffLibraries resolves, all three library
\* scripts have finished loading, also when another call started earlier
\* and is still waiting for a script to load.
C21_LibrariesLoadedOnResolve ==
    [][(geotiff.pc = "libraries" /\ geotiff'.pc \notin {"libraries", "stalled"})
          => (/\ geotiff.waiting = {}
              /\ geotiff.loaded \cup geotiff.present = 1..3)]_vars

\* C22: every call of loadGeoTiffOverlay eventually settles, with a layer or
\* with null, provided each script load and fetch it starts eventually
\* completes or fails; a library script that fails to load leads to the
\* result null.
C22_GeoTiffSettles ==
    /\ <>(geotiff.pc = "settled" /\ geotiff.result \in {"layer", "null"})
    /\ [](geotiff.pc # "stalled")

\* C23: when loadGeoTiffOverlay resolves to null it has added no layer to
\* the map and has not moved the camera.
C23_NullLeavesMapAlone ==
    (geotiff.pc = "settled" /\ geotiff.result = "null")
        => (~geotiff.layerAdded /\ ~geotiff.camera)

-----------------------------------------------------------------------------
(* Properties of the hover handling *)

\* C24: in the hover handling set up by processTemperatureData at most one
\* debounce timer is pending at any time, and after a 'mouseleave' the popup
\* is closed and stays closed until the next 'mousemove': the mouseleave
\* leaves no timer pending and the popup closed, the popup is opened only
\* by a pending timer that fires, and only a 'mousemove' starts a timer.
C24_HoverDebounced ==
    /\ [](\A i \in 1..Len(maps) : Cardinality(HoverTimersOf(hoverTimers, i)) <= 1)
    /\ [][MouseLeave =>
             \E i \in 1..Len(maps) :
                 /\ ~maps[i].disposed /\ maps[i].hover
                 /\ HoverTimersOf(hoverTimers', i) = {}
                 /\ ~(popup'.opened /\ popup'.map = i)]_vars
    /\ [][(popup'.opened /\ popup' # popup) =>
             \E t \in hoverTimers : t[1] = popup'.map /\ t \notin hoverTimers']_vars
    /\ [][~(hoverTimers' \subseteq hoverTimers) => MouseMove]_vars

\* the pointer has left a live map while its popup was open or a timer was
\* pending: the popup is closed and no timer of that map is pending
C24_Witness ==
    /\ ~popup.opened
    /\ "by" \in DOMAIN popup
    /\ popup.by = "mouseleave"
    /\ ~maps[popup.map].disposed
    /\ HoverTimersOf(hoverTimers, popup.map) = {}

-----------------------------------------------------------------------------
(* Properties of testFastAPIConnection *)

\* whether the k-th probe of the call succeeded: HTTP ok, or status 405 for
\* the probe of /api/chat
ProbeSucceeded(k) ==
    LET o == connection.outcomes[k]
    IN  /\ o.kind = "responded"
        /\ \/ o.status >= 200 /\ o.status <= 299
           \/ connection.requests[k].path = "/api/chat" /\ o.status = 405

\* C25: testFastAPIConnection never throws; it probes GET /api/health,
\* GET /docs, OPTIONS /api/chat and HEAD / in that order, one at a time,
\* stops at the first probe that succeeds (HTTP ok, or status 405 for
\* /api/chat only) and returns true, and returns false only after all four
\* probes have failed.
C25_ProbesInOrder ==
    LET c == connection
        sent == Len(c.requests)
        done == Len(c.outcomes)
    IN  /\ c.result \in {"pending", "true", "false"}
        /\ sent <= 4
        /\ \A k \in 1..sent :
               c.requests[k] =
                   CASE k = 1 -> [method |-> "GET", path |-> "/api/health"]
                     [] k = 2 -> [method |-> "GET", path |-> "/docs"]
                     [] k = 3 -> [method |-> "OPTIONS", path |-> "/api/chat"]
                     [] k = 4 -> [method |-> "HEAD", path |-> "/"]
        /\ (c.pc = "probing") <=> (c.result = "pending")
        /\ done = (IF c.pc = "probing" THEN sent - 1 ELSE sent)
        /\ \A k \in 1..(done - 1) : ~ProbeSucceeded(k)
        /\ (c.result = "pending" /\ done > 0) => ~ProbeSucceeded(done)
        /\ (c.result = "true") => ProbeSucceeded(done)
        /\ (c.result = "false") => (done = 4 /\ ~ProbeSucceeded(4))

\* the first two probes failed, the OPTIONS probe of /api/chat was answered
\* 405, and the call returned true without sending the fourth
C25_Witness ==
    /\ connection.result = "true"
    /\ Len(connection.requests) = 3
    /\ connection.outcomes[3] = [kind |-> "responded", status |-> 405]
    /\ connection.outcomes[1] = [kind |-> "rejected"]
    /\ connection.outcomes[2] = [kind |-> "responded", status |-> 405]

-----------------------------------------------------------------------------
(* Properties of a blank submit *)

\* C26: handleSubmit with an empty or whitespace-only query changes
\* nothing: no message is appended, no request is sent, and query, error,
\* loading, threadId and debug keep their values.  While the query is empty
\* or whitespace no step counts a submit, calls callMultiAgentFunction,
\* sends a POST, starts loading or appends a user message.
C26_BlankSubmitChangesNothing ==
    /\ [][HandleSubmitBlank =>
             UNCHANGED <<messages, posts, calls, invoked, query, error, loading,
                         threadId, debug>>]_vars
    /\ [][(query = "" \/ query = "   ") =>
             /\ submits' = submits
             /\ invoked' = invoked
             /\ posts' = posts
             /\ Cardinality(calls') <= Cardinality(calls)
             /\ loading' => loading
             /\ Len(messages') > Len(messages)
                    => messages'[Len(messages')].role = "assistant"]_vars

\* the Chat component after one answered question, with only spaces in the
\* input box: Send is enabled, and handleSubmit has returned at once
C26_Witness ==
    /\ component = "Chat"
    /\ initPc # "start"
    /\ query = "   "
    /\ ~loading
    /\ ENABLED HandleSubmitBlank
    /\ Len(messages) = 2
    /\ submits = 1
    /\ Len(posts) = 1

-----------------------------------------------------------------------------
(* Properties of temperature_data *)

\* whether v is a JSON number
FiniteNumber(v) == DOMAIN v = {"t", "n"} /\ v.t = "number" /\ v.n \in Int

\* one point for each feature of fs whose longitude, latitude and value are
\* finite numbers, in the order of fs
RECURSIVE PointsOf(_)
PointsOf(fs) ==
    IF fs = <<>> THEN <<>>
    ELSE LET f == Head(fs)
         IN  (IF /\ f # Null
                 /\ FiniteNumber(f.lng) /\ FiniteNumber(f.lat) /\ FiniteNumber(f.value)
              THEN <<[latitude |-> f.lat, longitude |-> f.lng, value |-> f.value]>>
              ELSE <<>>) \o PointsOf(Tail(fs))

\* C27: the temperature_data returned by callMultiAgentFunction contains, in
\* the original order, exactly one point (latitude, longitude, value) for
\* each GeoJSON feature whose longitude, latitude and properties.value are
\* finite numbers and no point for any other feature, and it is the empty
\* list when the response has no geojson features.
C27_TemperatureDataFiltered ==
    (lastSettle.kind = "resolved") =>
        LET fs == Get(Get(lastSettle.data, "geojson"), "features")
            td == lastSettle.response.temperature_data
        IN  IF fs = Undef THEN td = <<>> ELSE td = PointsOf(fs.a)

\* a response with one good feature after one whose coordinates are strings:
\* temperature_data has the good one alone
C27_Witness ==
    /\ lastSettle.kind = "resolved"
    /\ Get(Get(lastSettle.data, "geojson"), "features")
          = Arr(<<Feature(NumStr(-7400), NumStr(3600), Num(9)),
                  Feature(Num(-7300), Num(3700), Num(15))>>)
    /\ lastSettle.response.temperature_data
          = <<[latitude |-> Num(3700), longitude |-> Num(-7300), value |-> Num(15)]>>

-----------------------------------------------------------------------------
(* Properties of getVariableColor *)

\* whether the colormap of the call has a colors and a values list of the
\* same length
EqualLengthColormap ==
    /\ pixel.colormap # Undef
    /\ pixel.colormap.colors # Undef
    /\ pixel.colormap.values # Undef
    /\ Len(pixel.colormap.colors.a) = Len(pixel.colormap.values.a)

\* C28: for every numeric value, every variable name and every backend
\* colormap whose colors and values lists have equal length, getVariableColor
\* returns three integer channels each between 0 and 255; with such a
\* colormap the result is the first color for values below the first stop,
\* the last color for values above the last stop, and exactly colors[i] when
\* the value equals values[i].
C28_ColorChannelsInRange ==
    (pixel.pc = "returned" /\ (pixel.colormap = Undef \/ EqualLengthColormap)) =>
        /\ Len(pixel.rgb) = 3
        /\ \A ch \in 1..3 :
               /\ pixel.rgb[ch].t = "number"
               /\ pixel.rgb[ch].n \in 0..255
        /\ (EqualLengthColormap /\ pixel.value # NaN
               /\ Len(pixel.colormap.values.a) > 0) =>
              LET colors == pixel.colormap.colors.a
                  values == pixel.colormap.values.a
                  v == pixel.value.n
              IN  /\ v < values[1] => pixel.rgb = hexToRgb(colors[1])
                  /\ v > values[Len(values)]
                        => pixel.rgb = hexToRgb(colors[Len(colors)])
                  /\ \A i \in 1..Len(values) :
                        v = values[i] => pixel.rgb = hexToRgb(colors[i])

====
